---- MODULE Spec2Model ----
(***************************************************************************)
(* Model of NJointBlmcRobotDriver                                          *)
(* (include/robot_fingers/n_joint_blmc_robot_driver.hxx).                  *)
(*                                                                         *)
(* Numbers.  The code computes with doubles.  The model computes with      *)
(* integers in fixed units: a position is a multiple of PosUnit, chosen    *)
(* so that every step goal of the minimum-jerk trajectory is an exact      *)
(* integer.  NaN ("unset") and +-infinity are kept as values of their own: *)
(* NaN is a sentinel on which every comparison is false and which every    *)
(* arithmetic operation propagates, Infinity is larger than every finite   *)
(* value of the model.                                                     *)
(***************************************************************************)
EXTENDS Integers, Sequences, FiniteSets, TLC

\* ------------------------------------------------------------------------
\* Sizes
\* ------------------------------------------------------------------------

\* template parameter N_JOINTS (the two-joint instantiation)
N_JOINTS == 2

Joints == 0 .. (N_JOINTS - 1)

\* template parameter N_MOTOR_BOARDS
N_MOTOR_BOARDS == 2

MotorBoards == 0 .. (N_MOTOR_BOARDS - 1)

\* calibration.move_steps of the configuration the model runs with
calibration_move_steps == 2

\* move_steps of the waypoints of the configured shutdown trajectory
trajectory_move_steps == 1

Pow5(s) == s * s * s * s * s

\* One position unit.  Every configured and measured position is a multiple
\* of it, which makes (goal - initial) * blend(t / steps) an integer for the
\* step counts used.
PosUnit ==
    (IF calibration_move_steps = 0 THEN 1 ELSE Pow5(calibration_move_steps))
    * (IF trajectory_move_steps = 0 THEN 1 ELSE Pow5(trajectory_move_steps))

\* ------------------------------------------------------------------------
\* Doubles: NaN and infinity
\* ------------------------------------------------------------------------

\* std::numeric_limits<double>::infinity(); larger than every finite value
Infinity == 100000000

\* the "unset" value of Action::position / position_kp / position_kd
NaN == 0 - 999999999

IsNaN(x) == x = NaN

\* a < b and a > b of doubles: false as soon as one side is NaN
Less(a, b) == ~IsNaN(a) /\ ~IsNaN(b) /\ a < b

Greater(a, b) == ~IsNaN(a) /\ ~IsNaN(b) /\ a > b

\* a + b, a - b, a * b of doubles: NaN propagates
Add(a, b) == IF IsNaN(a) \/ IsNaN(b) THEN NaN ELSE a + b

Sub(a, b) == IF IsNaN(a) \/ IsNaN(b) THEN NaN ELSE a - b

Mul(a, b) == IF IsNaN(a) \/ IsNaN(b) THEN NaN ELSE a * b

Abs(x) == IF x < 0 THEN 0 - x ELSE x

\* Vector::Constant(c), Vector::Zero()
VectorConstant(c) == [i \in Joints |-> c]

VectorZero == VectorConstant(0)

\* ------------------------------------------------------------------------
\* Actions and observations
\* ------------------------------------------------------------------------

\* Action(torque): a torque command, no position target, no gain overrides
\* (the implicit conversion used by apply_action_uninitialized(torques_Nm))
ActionTorque(torque) ==
    [torque |-> torque,
     position |-> VectorConstant(NaN),
     position_kp |-> VectorConstant(NaN),
     position_kd |-> VectorConstant(NaN)]

\* Action::Position(position): a pure position target, zero torque, default
\* gains
ActionPosition(position) ==
    [torque |-> VectorZero,
     position |-> position,
     position_kp |-> VectorConstant(NaN),
     position_kd |-> VectorConstant(NaN)]

\* clamp(vector, lower, upper), element-wise
clamp(v, lo, hi) ==
    [i \in Joints |-> IF v[i] < lo THEN lo ELSE IF v[i] > hi THEN hi ELSE v[i]]

\* ------------------------------------------------------------------------
\* process_desired_action
\* ------------------------------------------------------------------------

\* no position clamp
ClampedPosition_unclamped(p, lower, upper) == p

\* a position clamp that only knows the upper limit
ClampedPosition_upper_only(p, lower, upper) ==
    IF Greater(p, upper) THEN upper ELSE p

\* the position clamp of joint i (first if / else if of the loop body)
ClampedPosition(p, lower, upper) ==
    IF Less(p, lower) THEN lower
    ELSE IF Greater(p, upper) THEN upper
    ELSE p

\* Which branch of the boundary check joint i takes: -1 below the lower
\* limit, +1 above the upper limit, 0 inside.
LimitSign(measured, lower, upper) ==
    IF Less(measured, lower) THEN 0 - 1
    ELSE IF Greater(measured, upper) THEN 1
    ELSE 0

\* the limit passed to set_limit_action for that branch
LimitValue(sign, lower, upper) == IF sign < 0 THEN lower ELSE upper

\* the "Position Limits" loop without the discard of the torque command
LimitedAction_keeps_torque(desired, obs, kp, kd, lower, upper) ==
    LET sgn == [i \in Joints |->
                  LimitSign(obs.position[i], lower[i], upper[i])]
        pos == [i \in Joints |->
                  ClampedPosition(desired.position[i], lower[i], upper[i])]
    IN  [torque |-> desired.torque,
         position |->
            [i \in Joints |->
                IF sgn[i] # 0 /\ IsNaN(pos[i])
                THEN LimitValue(sgn[i], lower[i], upper[i]) ELSE pos[i]],
         position_kp |->
            [i \in Joints |->
                IF sgn[i] # 0 THEN kp[i] ELSE desired.position_kp[i]],
         position_kd |->
            [i \in Joints |->
                IF sgn[i] # 0 THEN kd[i] ELSE desired.position_kd[i]]]

\* a "Position Limits" loop that discards the custom gains of every joint
\* as soon as one joint is measured outside the limits
LimitedAction_whole_vector(desired, obs, kp, kd, lower, upper) ==
    LET sgn == [i \in Joints |->
                  LimitSign(obs.position[i], lower[i], upper[i])]
        pos == [i \in Joints |->
                  ClampedPosition(desired.position[i], lower[i], upper[i])]
        any == \E j \in Joints : sgn[j] # 0
    IN  [torque |->
            [i \in Joints |->
                IF sgn[i] # 0 /\ desired.torque[i] * sgn[i] > 0
                THEN 0 ELSE desired.torque[i]],
         position |->
            [i \in Joints |->
                IF sgn[i] # 0 /\ IsNaN(pos[i])
                THEN LimitValue(sgn[i], lower[i], upper[i]) ELSE pos[i]],
         position_kp |->
            [i \in Joints |-> IF any THEN kp[i] ELSE desired.position_kp[i]],
         position_kd |->
            [i \in Joints |-> IF any THEN kd[i] ELSE desired.position_kd[i]]]

\* The action after the "Position Limits" loop: position clamp, then
\* set_limit_action for every joint measured outside the limits.
LimitedAction(desired, obs, kp, kd, lower, upper) ==
    LET sgn == [i \in Joints |->
                  LimitSign(obs.position[i], lower[i], upper[i])]
        pos == [i \in Joints |->
                  ClampedPosition(desired.position[i], lower[i], upper[i])]
    IN  [torque |->
            [i \in Joints |->
                IF sgn[i] # 0 /\ desired.torque[i] * sgn[i] > 0
                THEN 0 ELSE desired.torque[i]],
         position |->
            [i \in Joints |->
                IF sgn[i] # 0 /\ IsNaN(pos[i])
                THEN LimitValue(sgn[i], lower[i], upper[i]) ELSE pos[i]],
         position_kp |->
            [i \in Joints |->
                IF sgn[i] # 0 THEN kp[i] ELSE desired.position_kp[i]],
         position_kd |->
            [i \in Joints |->
                IF sgn[i] # 0 THEN kd[i] ELSE desired.position_kd[i]]]

\* The action after the "Position Controller" block.
ControlledAction(a, obs, kp, kd) ==
    IF \A i \in Joints : IsNaN(a.position[i])
    THEN a
    ELSE
        LET akp == [i \in Joints |->
                      IF IsNaN(a.position_kp[i]) THEN kp[i]
                      ELSE a.position_kp[i]]
            akd == [i \in Joints |->
                      IF IsNaN(a.position_kd[i]) THEN kd[i]
                      ELSE a.position_kd[i]]
            position_error ==
                [i \in Joints |-> Sub(a.position[i], obs.position[i])]
            pd == [i \in Joints |->
                     Sub(Mul(akp[i], position_error[i]),
                         Mul(akd[i], obs.velocity[i]))]
            position_control_torque ==
                [i \in Joints |-> IF IsNaN(pd[i]) THEN 0 ELSE pd[i]]
        IN  [torque |->
                [i \in Joints |-> a.torque[i] + position_control_torque[i]],
             position |-> a.position,
             position_kp |-> akp,
             position_kd |-> akd]

\* the "Safety Checks" block without the second clamp
SafeTorque_damped_last(torque, obs, max_torque_Nm, safety_kd) ==
    LET t1 == clamp(torque, 0 - max_torque_Nm, max_torque_Nm)
    IN  [i \in Joints |-> t1[i] - safety_kd[i] * obs.velocity[i]]

\* the "Safety Checks" block without the velocity damping
SafeTorque_undamped(torque, obs, max_torque_Nm, safety_kd) ==
    clamp(torque, 0 - max_torque_Nm, max_torque_Nm)

\* The torque after the "Safety Checks" block: clamp, damp, clamp again.
SafeTorque(torque, obs, max_torque_Nm, safety_kd) ==
    LET t1 == clamp(torque, 0 - max_torque_Nm, max_torque_Nm)
        t2 == [i \in Joints |-> t1[i] - safety_kd[i] * obs.velocity[i]]
    IN  clamp(t2, 0 - max_torque_Nm, max_torque_Nm)

process_desired_action(desired_action, latest_observation, max_torque_Nm, safety_kd, default_position_control_kp, default_position_control_kd, lower_position_limits, upper_position_limits) ==
    LET limited == LimitedAction(desired_action, latest_observation,
                                 default_position_control_kp,
                                 default_position_control_kd,
                                 lower_position_limits,
                                 upper_position_limits)
        controlled == ControlledAction(limited, latest_observation,
                                       default_position_control_kp,
                                       default_position_control_kd)
    IN  [controlled EXCEPT
            !.torque = SafeTorque(controlled.torque, latest_observation,
                                  max_torque_Nm, safety_kd)]

\* ------------------------------------------------------------------------
\* Configuration
\* ------------------------------------------------------------------------

Vec(a, b) == [i \in Joints |-> IF i = 0 THEN a ELSE b]

HomingMethods ==
    {"NONE", "NEXT_INDEX", "CURRENT_POSITION", "ENDSTOP", "ENDSTOP_INDEX",
     "ENDSTOP_RELEASE"}

\* blmc_drivers::HomingReturnCode
HomingReturnCodes == {"NOT_INITIALIZED", "RUNNING", "SUCCEEDED", "FAILED"}

\* magnitude of the configured end-stop search torque
SearchTorque == 10

\* the values of calibration.endstop_search_torques_Nm the model runs with
SearchTorques == {VectorZero, Vec(SearchTorque, 0 - SearchTorque)}

\* Config::shutdown_trajectory: TrajectoryStep{target_position_rad,
\* move_steps}
shutdown_trajectory ==
    << [target_position_rad |-> Vec(PosUnit, 0),
        move_steps |-> trajectory_move_steps],
       [target_position_rad |-> Vec(0, 0),
        move_steps |-> trajectory_move_steps] >>

\* The part of Config that varies between runs of the model: every homing
\* method with and without end-stop and search torques and the two-step
\* shutdown trajectory, plus one configuration without shutdown trajectory
\* and one whose shutdown trajectory is a single step of zero move_steps.
Configs ==
    [homing_method : HomingMethods,
     has_endstop : BOOLEAN,
     endstop_search_torques_Nm : SearchTorques,
     shutdown_trajectory : {shutdown_trajectory}]
    \cup
    {[homing_method |-> "NONE",
      has_endstop |-> FALSE,
      endstop_search_torques_Nm |-> VectorZero,
      shutdown_trajectory |-> trajectory] :
        trajectory \in
          {<< >>,
           << [target_position_rad |-> Vec(0, 0), move_steps |-> 0] >>}}

\* max_torque_Nm_ (from max_current_A and the motor parameters)
max_torque_Nm == 40

safety_kd == Vec(1, 1)

position_control_gains_kp == Vec(1, 1)

position_control_gains_kd == Vec(1, 1)

hard_position_limits_lower == Vec(0 - 2 * PosUnit, 0 - 2 * PosUnit)

hard_position_limits_upper == Vec(2 * PosUnit, 2 * PosUnit)

soft_position_limits_lower == Vec(0 - PosUnit, 0 - PosUnit)

soft_position_limits_upper == Vec(PosUnit, PosUnit)

initial_position_rad == Vec(0, PosUnit)

home_offset_rad == Vec(PosUnit, 0 - PosUnit)

move_to_position_tolerance_rad == 2 * PosUnit

\* Config::run_duration_logfiles
run_duration_logfiles == << "log_a", "log_b" >>

\* hard limits that exclude their bounds
is_within_hard_position_limits_exclusive(position) ==
    /\ \A i \in Joints : hard_position_limits_lower[i] < position[i]
    /\ \A i \in Joints : position[i] < hard_position_limits_upper[i]

\* Config::is_within_hard_position_limits
is_within_hard_position_limits(position) ==
    /\ \A i \in Joints : hard_position_limits_lower[i] <= position[i]
    /\ \A i \in Joints : position[i] <= hard_position_limits_upper[i]

\* ------------------------------------------------------------------------
\* The hardware: what get_latest_observation() can return
\* ------------------------------------------------------------------------

\* SimpleNJointBlmcRobotDriver::get_latest_observation: the measured
\* positions and velocities (the measured torque is read but used by nothing
\* in the driver).  Every read returns one of these: at rest at the origin,
\* beyond the upper limits of joint 0 with joint 0 moving, beyond the lower
\* limits of both joints with joint 1 moving.
Observations ==
    {[position |-> Vec(0, 0), velocity |-> Vec(0, 0)],
     [position |-> Vec(3 * PosUnit, 0), velocity |-> Vec(2, 0)],
     [position |-> Vec(0 - 3 * PosUnit, 0 - 3 * PosUnit),
      velocity |-> Vec(0, 0 - 2)]}

\* the desired actions the caller of apply_action passes
DesiredActions ==
    {ActionTorque(Vec(SearchTorque, 0 - SearchTorque)),
     ActionPosition(Vec(3 * PosUnit, 0 - 3 * PosUnit)),
     [torque |-> Vec(0 - 5 * SearchTorque, 0),
      position |-> Vec(NaN, 0),
      position_kp |-> Vec(NaN, 2),
      position_kd |-> Vec(NaN, 0)]}

\* ------------------------------------------------------------------------
\* Constants of the homing routines
\* ------------------------------------------------------------------------

\* MIN_STEPS_MOVE_TO_END_STOP (1000 in the code, scaled down)
MIN_STEPS_MOVE_TO_END_STOP == 4

\* SIZE_VELOCITY_WINDOW (100 in the code, scaled down; the static_assert
\* MIN_STEPS_MOVE_TO_END_STOP > SIZE_VELOCITY_WINDOW is kept)
SIZE_VELOCITY_WINDOW == 2

\* STOP_VELOCITY, in the velocity unit of the model (0.01 rad/s)
STOP_VELOCITY == 1

\* NUM_ZERO_TORQUE_STEPS (1000 in the code, scaled down)
NUM_ZERO_TORQUE_STEPS == 2

\* the while loop of move_until_blocking has no bound of its own; the model
\* stops following it after this many iterations
MaxBlockingSteps == 5

\* width of step_count (uint32_t: 32 in the code, scaled down); the counter
\* wraps to 0 at 2^width, above the minimum number of steps
StepCountBits == 3

StepCountModulus == 2 ^ StepCountBits

\* number of calls of the public interface in one run of the model
MaxCalls == 2

\* ------------------------------------------------------------------------
\* State
\* ------------------------------------------------------------------------

VARIABLES
    config,            \* config_ (the varying part) and has_endstop_
    is_initialized_,   \* is_initialized_
    action_counter_,   \* action_counter_
    pc,                \* where the caller / the initialization thread is
    frame,             \* local variables of the running call
    last_tick,         \* the last tick of the running call, if any
    trace,             \* what the running call did so far, in order
    ticks,             \* number of ticks of the running call so far
    result,            \* the last call of the public interface
    calls,             \* number of calls of the public interface so far
    logs,              \* contents of the run duration log files
    p_in,              \* arguments of a call of process_desired_action
    p_out              \* its return value

vars ==
    << config, is_initialized_, action_counter_, pc, frame, last_tick, trace,
       ticks, result, calls, logs, p_in, p_out >>

None == "none"

NoTick == [issuer |-> None]

\* p_in and p_out when process_desired_action is not called on its own
NoCall == [called |-> FALSE]

Unbounded(lower, upper) ==
    /\ lower = VectorConstant(0 - Infinity)
    /\ upper = VectorConstant(Infinity)

\* slots of running_velocities that were never written
Unwritten == VectorConstant(NaN)

NoFrame ==
    [top |-> None,
     homing_status |-> "NOT_INITIALIZED",
     collaborator_status |-> None,
     reference_request |-> [call |-> None],
     homing_succeeded |-> FALSE,
     step_count |-> 0,
     running_velocities |-> [k \in 0 .. (SIZE_VELOCITY_WINDOW - 1) |-> Unwritten],
     summed_velocities |-> VectorZero,
     i |-> 0,
     waypoint |-> VectorZero,
     reached_goal |-> FALSE,
     success |-> TRUE,
     goal_pos |-> VectorZero,
     time_steps |-> 0,
     t |-> 0,
     initial_position |-> VectorZero,
     position |-> VectorZero]

TickEvents == {"move_until_blocking", "zero_torque", "move_to_position",
               "apply_action"}

\* consecutive ticks of the same issuer are one entry of the trace
Recorded(tr, ev) ==
    IF ev \in TickEvents /\ tr # << >> /\ tr[Len(tr)] = ev
    THEN tr ELSE Append(tr, ev)

Init ==
    /\ config \in Configs
    /\ is_initialized_ = FALSE
    /\ action_counter_ = 0
    /\ pc = "idle"
    /\ frame = NoFrame
    /\ last_tick = NoTick
    /\ trace = << >>
    /\ ticks = 0
    /\ result = [op |-> None, status |-> None]
    /\ calls = 0
    /\ logs = [f \in 1 .. Len(run_duration_logfiles) |-> << >>]
    /\ p_in = NoCall
    /\ p_out = NoCall

\* ------------------------------------------------------------------------
\* apply_action_uninitialized: one tick
\* ------------------------------------------------------------------------

\* lower limits that are never the soft limits
lower_limits_unbounded(initialized) == VectorConstant(0 - Infinity)

\* the limits a tick uses
lower_limits(initialized) ==
    IF initialized THEN soft_position_limits_lower
    ELSE VectorConstant(0 - Infinity)

upper_limits(initialized) ==
    IF initialized THEN soft_position_limits_upper
    ELSE VectorConstant(Infinity)

\* What one run of apply_action_uninitialized(desired_action) issued by
\* `issuer` does, with `observation` the value get_latest_observation()
\* returns: the limits it picks, the action it applies and the torque it
\* sends to the joints (the torque of the applied action).
applied_tick(desired_action, observation, issuer) ==
    LET lower == lower_limits(is_initialized_)
        upper == upper_limits(is_initialized_)
        applied_action ==
            process_desired_action(desired_action, observation,
                                   max_torque_Nm, safety_kd,
                                   position_control_gains_kp,
                                   position_control_gains_kd, lower, upper)
    IN  [issuer |-> issuer,
         during |-> IF issuer = "apply_action" THEN issuer ELSE frame.top,
         initialized |-> is_initialized_,
         lower |-> lower,
         upper |-> upper,
         observation |-> observation,
         desired |-> desired_action,
         applied |-> applied_action,
         sent_torque |-> applied_action.torque]

\* a tick that is counted only once the driver is initialized
apply_action_uninitialized_uncounted(desired_action, observation, issuer) ==
    /\ last_tick' = applied_tick(desired_action, observation, issuer)
    /\ action_counter_' = IF is_initialized_ THEN action_counter_ + 1
                          ELSE action_counter_
    /\ ticks' = ticks + 1
    /\ trace' = Recorded(trace, issuer)

\* One run of apply_action_uninitialized(desired_action).
apply_action_uninitialized(desired_action, observation, issuer) ==
    /\ last_tick' = applied_tick(desired_action, observation, issuer)
    /\ action_counter_' = action_counter_ + 1
    /\ ticks' = ticks + 1
    /\ trace' = Recorded(trace, issuer)

\* ------------------------------------------------------------------------
\* apply_action
\* ------------------------------------------------------------------------

Called(op, status) ==
    /\ calls' = calls + 1
    /\ result' = [op |-> op, status |-> status]

\* apply_action without the check of is_initialized_
apply_action_unchecked(desired_action) ==
    /\ pc = "idle"
    /\ calls < MaxCalls
    /\ Called("apply_action", "returned")
    /\ \E observation \in Observations :
         apply_action_uninitialized(desired_action, observation,
                                    "apply_action")
    /\ UNCHANGED << config, is_initialized_, pc, frame, logs, p_in, p_out >>

\* apply_action(desired_action): throws std::runtime_error before anything
\* else when is_initialized_ is false, runs one tick otherwise.
apply_action(desired_action) ==
    /\ pc = "idle"
    /\ calls < MaxCalls
    /\ IF ~is_initialized_
       THEN /\ Called("apply_action", "runtime_error")
            /\ UNCHANGED << action_counter_, last_tick, trace, ticks >>
       ELSE /\ Called("apply_action", "returned")
            /\ \E observation \in Observations :
                 apply_action_uninitialized(desired_action, observation,
                                            "apply_action")
    /\ UNCHANGED << config, is_initialized_, pc, frame, logs, p_in, p_out >>

\* ------------------------------------------------------------------------
\* initialize / _initialize
\* ------------------------------------------------------------------------

\* initialize(): starts the real-time thread that runs _initialize() and
\* joins it.  The caller is blocked until pc is "idle" again.  _initialize
\* begins with joint_modules_.set_position_control_gains.
initialize ==
    /\ pc = "idle"
    /\ calls < MaxCalls
    /\ Called("initialize", "running")
    /\ pc' = "homing"
    /\ frame' = [NoFrame EXCEPT !.top = "initialize"]
    /\ trace' = << "set_position_control_gains" >>
    /\ ticks' = 0
    /\ last_tick' = NoTick
    /\ UNCHANGED << config, is_initialized_, action_counter_, logs, p_in,
                    p_out >>

\* the end-stop methods without ENDSTOP_RELEASE
EndstopMethods_without_release == {"ENDSTOP", "ENDSTOP_INDEX"}

EndstopMethods == {"ENDSTOP", "ENDSTOP_INDEX", "ENDSTOP_RELEASE"}

\* Vector::isZero()
isZero(v) == \A i \in Joints : v[i] = 0

\* Vector::maxCoeff()
maxCoeff(v) == CHOOSE m \in {v[i] : i \in Joints} : \A i \in Joints : v[i] <= m

\* a homing() that fails on FAILED only
HomingReturns_unless_failed(value, status, collaborator_status, request) ==
    /\ pc' = "pause_after_homing"
    /\ frame' = [frame EXCEPT !.homing_succeeded = (status # "FAILED"),
                              !.homing_status = status,
                              !.collaborator_status = collaborator_status,
                              !.reference_request = request]

\* no request was made to the joint modules
NoRequest == [call |-> None]

\* joint_modules_.execute_homing_at_current_position(config_.home_offset_rad)
HomeAtCurrentPosition ==
    [call |-> "execute_homing_at_current_position",
     home_offset_rad |-> home_offset_rad]

\* Absolute step size when moving for encoder index search, in units of
\* 0.0001 rad
INDEX_SEARCH_STEP_SIZE_RAD == 3

\* an index search that steps towards the end stop on every joint
index_search_step_sizes_towards_endstop(endstop_search_torques_Nm) ==
    [i \in Joints |->
        IF endstop_search_torques_Nm[i] > 0
        THEN INDEX_SEARCH_STEP_SIZE_RAD
        ELSE INDEX_SEARCH_STEP_SIZE_RAD * (0 - 1)]

\* homing(): the search direction of each joint, opposite to the end-stop
\* search direction
index_search_step_sizes(endstop_search_torques_Nm) ==
    [i \in Joints |->
        IF endstop_search_torques_Nm[i] > 0
        THEN INDEX_SEARCH_STEP_SIZE_RAD * (0 - 1)
        ELSE INDEX_SEARCH_STEP_SIZE_RAD]

\* joint_modules_.execute_homing(INDEX_SEARCH_DISTANCE_LIMIT_RAD,
\* config_.home_offset_rad, index_search_step_sizes)
HomeOnIndex ==
    [call |-> "execute_homing",
     home_offset_rad |-> home_offset_rad,
     index_search_step_sizes |->
        index_search_step_sizes(config.endstop_search_torques_Nm)]

\* `return value;` of homing(), back in _initialize(), after `request` to
\* the joint modules
HomingReturns(value, status, collaborator_status, request) ==
    /\ pc' = "pause_after_homing"
    /\ frame' = [frame EXCEPT !.homing_succeeded = value,
                              !.homing_status = status,
                              !.collaborator_status = collaborator_status,
                              !.reference_request = request]

\* homing(), first switch, without the check of the search torques
homing_endstop_search_any_torque ==
    /\ pc = "homing"
    /\ IF config.homing_method \in EndstopMethods
       THEN IF ~config.has_endstop
            THEN HomingReturns(FALSE, "NOT_INITIALIZED", None, NoRequest)
            ELSE /\ pc' = "move_until_blocking"
                 /\ UNCHANGED frame
       ELSE /\ pc' = "homing_reference"
            /\ UNCHANGED frame
    /\ UNCHANGED << config, is_initialized_, action_counter_, last_tick, trace,
                    ticks, result, calls, logs, p_in, p_out >>

\* homing(), first switch: the fail-fast checks of the end-stop methods and
\* the call of move_until_blocking.
homing_endstop_search ==
    /\ pc = "homing"
    /\ IF config.homing_method \in EndstopMethods
       THEN IF ~config.has_endstop
            THEN HomingReturns(FALSE, "NOT_INITIALIZED", None, NoRequest)
            ELSE IF isZero(config.endstop_search_torques_Nm)
            THEN HomingReturns(FALSE, "NOT_INITIALIZED", None, NoRequest)
            ELSE /\ pc' = "move_until_blocking"
                 /\ UNCHANGED frame
       ELSE /\ pc' = "homing_reference"
            /\ UNCHANGED frame
    /\ UNCHANGED << config, is_initialized_, action_counter_, last_tick, trace,
                    ticks, result, calls, logs, p_in, p_out >>

\* a loop condition without the minimum number of steps
KeepsMoving_no_minimum(step_count, summed_velocities) ==
    maxCoeff(summed_velocities) > STOP_VELOCITY * SIZE_VELOCITY_WINDOW

\* the condition of the while loop of move_until_blocking
\* (summed_velocities.maxCoeff() / SIZE_VELOCITY_WINDOW > STOP_VELOCITY)
KeepsMoving(step_count, summed_velocities) ==
    \/ step_count < MIN_STEPS_MOVE_TO_END_STOP
    \/ maxCoeff(summed_velocities) > STOP_VELOCITY * SIZE_VELOCITY_WINDOW

\* The body of the loop of move_until_blocking after the tick, for the
\* observation it reads: the velocity window, the running sums and the
\* step count.
velocity_window_update(f, observation) ==
    LET abs_velocities == [i \in Joints |-> Abs(observation.velocity[i])]
        running_index == f.step_count % SIZE_VELOCITY_WINDOW
        evicted ==
            IF f.step_count >= SIZE_VELOCITY_WINDOW
            THEN [i \in Joints |->
                    Sub(f.summed_velocities[i],
                        f.running_velocities[running_index][i])]
            ELSE f.summed_velocities
    IN  [f EXCEPT
           !.running_velocities[running_index] = abs_velocities,
           !.summed_velocities =
               [i \in Joints |-> Add(evicted[i], abs_velocities[i])],
           !.step_count = (f.step_count + 1) % StepCountModulus]

\* One iteration of the loop of move_until_blocking(torques_Nm): a tick,
\* then a second read of the observation for the velocity window.
move_until_blocking_step ==
    /\ pc = "move_until_blocking"
    /\ KeepsMoving(frame.step_count, frame.summed_velocities)
    /\ frame.step_count < MaxBlockingSteps
    /\ \E observation \in Observations :
         apply_action_uninitialized(
             ActionTorque(config.endstop_search_torques_Nm), observation,
             "move_until_blocking")
    /\ \E observation \in Observations :
         frame' = velocity_window_update(frame, observation)
    /\ UNCHANGED << config, is_initialized_, pc, result, calls, logs, p_in,
                    p_out >>

\* move_until_blocking returns: the loop condition is false (its locals are
\* gone).
move_until_blocking_return ==
    /\ pc = "move_until_blocking"
    /\ ~KeepsMoving(frame.step_count, frame.summed_velocities)
    /\ pc' = "homing_reference"
    /\ frame' = [frame EXCEPT
                   !.step_count = NoFrame.step_count,
                   !.running_velocities = NoFrame.running_velocities,
                   !.summed_velocities = NoFrame.summed_velocities]
    /\ UNCHANGED << config, is_initialized_, action_counter_, last_tick,
                    trace, ticks, result, calls, logs, p_in, p_out >>

\* homing(), second switch, case NONE
homing_none ==
    /\ pc = "homing_reference"
    /\ config.homing_method = "NONE"
    /\ HomingReturns(TRUE, "SUCCEEDED", None, NoRequest)
    /\ UNCHANGED << config, is_initialized_, action_counter_, last_tick, trace,
                    ticks, result, calls, logs, p_in, p_out >>

\* homing(), second switch, cases NEXT_INDEX and ENDSTOP_INDEX: fails fast
\* on zero search torques, else joint_modules_.execute_homing.
homing_index ==
    /\ pc = "homing_reference"
    /\ config.homing_method \in {"NEXT_INDEX", "ENDSTOP_INDEX"}
    /\ IF isZero(config.endstop_search_torques_Nm)
       THEN /\ HomingReturns(FALSE, "NOT_INITIALIZED", None, NoRequest)
            /\ UNCHANGED trace
       ELSE /\ \E status \in HomingReturnCodes :
                 HomingReturns(status = "SUCCEEDED", status, status,
                               HomeOnIndex)
            /\ trace' = Recorded(trace, "execute_homing")
    /\ UNCHANGED << config, is_initialized_, action_counter_, last_tick, ticks,
                    result, calls, logs, p_in, p_out >>

\* homing(), second switch, cases CURRENT_POSITION and ENDSTOP:
\* joint_modules_.execute_homing_at_current_position.
homing_current_position ==
    /\ pc = "homing_reference"
    /\ config.homing_method \in {"CURRENT_POSITION", "ENDSTOP"}
    /\ \E status \in HomingReturnCodes :
         HomingReturns(status = "SUCCEEDED", status, status,
                       HomeAtCurrentPosition)
    /\ trace' = Recorded(trace, "execute_homing_at_current_position")
    /\ UNCHANGED << config, is_initialized_, action_counter_, last_tick, ticks,
                    result, calls, logs, p_in, p_out >>

\* homing(), second switch, case ENDSTOP_RELEASE: one zero-torque tick of
\* the release loop
homing_release_step ==
    /\ pc = "homing_reference"
    /\ config.homing_method = "ENDSTOP_RELEASE"
    /\ frame.i < NUM_ZERO_TORQUE_STEPS
    /\ \E observation \in Observations :
         apply_action_uninitialized(ActionTorque(VectorZero), observation,
                                    "zero_torque")
    /\ frame' = [frame EXCEPT !.i = frame.i + 1]
    /\ UNCHANGED << config, is_initialized_, pc, result, calls, logs, p_in,
                    p_out >>

\* homing_release_reference without waiting for the release loop to end
homing_release_reference_early ==
    /\ pc = "homing_reference"
    /\ config.homing_method = "ENDSTOP_RELEASE"
    /\ frame.i <= NUM_ZERO_TORQUE_STEPS
    /\ \E status \in HomingReturnCodes :
         /\ pc' = "pause_after_homing"
         /\ frame' = [frame EXCEPT !.homing_succeeded = (status = "SUCCEEDED"),
                                   !.homing_status = status,
                                   !.collaborator_status = status,
                                   !.reference_request = HomeAtCurrentPosition,
                                   !.i = 0]
    /\ trace' = Recorded(trace, "execute_homing_at_current_position")
    /\ UNCHANGED << config, is_initialized_, action_counter_, last_tick, ticks,
                    result, calls, logs, p_in, p_out >>

\* homing(), second switch, case ENDSTOP_RELEASE: after the release loop,
\* joint_modules_.execute_homing_at_current_position.
homing_release_reference ==
    /\ pc = "homing_reference"
    /\ config.homing_method = "ENDSTOP_RELEASE"
    /\ frame.i = NUM_ZERO_TORQUE_STEPS
    /\ \E status \in HomingReturnCodes :
         /\ pc' = "pause_after_homing"
         /\ frame' = [frame EXCEPT !.homing_succeeded = (status = "SUCCEEDED"),
                                   !.homing_status = status,
                                   !.collaborator_status = status,
                                   !.reference_request = HomeAtCurrentPosition,
                                   !.i = 0]
    /\ trace' = Recorded(trace, "execute_homing_at_current_position")
    /\ UNCHANGED << config, is_initialized_, action_counter_, last_tick, ticks,
                    result, calls, logs, p_in, p_out >>

\* _initialize(): pause_motors() after homing(); when homing succeeded, the
\* waypoint starts as the measured position.
pause_after_homing ==
    /\ pc = "pause_after_homing"
    /\ trace' = Recorded(trace, "pause_motors")
    /\ IF frame.homing_succeeded
       THEN /\ \E observation \in Observations :
                 frame' = [frame EXCEPT !.waypoint = observation.position,
                                        !.reached_goal = FALSE,
                                        !.i = 0]
            /\ pc' = "initial_move"
       ELSE /\ pc' = "final_pause"
            /\ UNCHANGED frame
    /\ UNCHANGED << config, is_initialized_, action_counter_, last_tick, ticks,
                    result, calls, logs, p_in, p_out >>

\* Entry of move_to_position(goal_pos, tolerance, time_steps): reads the
\* initial position.
MoveToPositionCalled(f, goal_pos, time_steps) ==
    \E observation \in Observations :
        frame' = [f EXCEPT !.goal_pos = goal_pos,
                           !.time_steps = time_steps,
                           !.t = 0,
                           !.initial_position = observation.position]

\* _initialize(): one iteration of the loop over the joints, up to the call
\* of move_to_position
initial_move_call ==
    /\ pc = "initial_move"
    /\ frame.i < N_JOINTS
    /\ LET waypoint == [frame.waypoint EXCEPT
                          ![frame.i] = initial_position_rad[frame.i]]
       IN  MoveToPositionCalled([frame EXCEPT !.waypoint = waypoint],
                                waypoint, calibration_move_steps)
    /\ pc' = "move_to_position"
    /\ UNCHANGED << config, is_initialized_, action_counter_, last_tick, trace,
                    ticks, result, calls, logs, p_in, p_out >>

\* _initialize(): after the loop over the joints; a missed goal is only
\* printed.
initial_move_done ==
    /\ pc = "initial_move"
    /\ frame.i = N_JOINTS
    /\ trace' = IF ~frame.reached_goal
                THEN Recorded(trace, "print_failed_to_reach_initial_position")
                ELSE trace
    /\ pc' = "final_pause"
    /\ UNCHANGED << config, is_initialized_, action_counter_, frame, last_tick,
                    ticks, result, calls, logs, p_in, p_out >>

\* 10 a^3 - 15 a^4 + 6 a^5 for a = t / time_steps, times time_steps^5
BlendNumerator(t, time_steps) ==
    10 * t * t * t * time_steps * time_steps
    - 15 * t * t * t * t * time_steps
    + 6 * Pow5(t)

\* step_goal of move_to_position at step t
step_goal(initial_position, goal_pos, t, time_steps) ==
    [i \in Joints |->
        initial_position[i]
        + ((goal_pos[i] - initial_position[i]) * BlendNumerator(t, time_steps))
          \div Pow5(time_steps)]

\* move_to_position: one iteration of the loop
move_to_position_step ==
    /\ pc = "move_to_position"
    /\ frame.t < frame.time_steps
    /\ \E observation \in Observations :
         apply_action_uninitialized(
             ActionPosition(step_goal(frame.initial_position, frame.goal_pos,
                                      frame.t, frame.time_steps)),
             observation, "move_to_position")
    /\ frame' = [frame EXCEPT !.t = frame.t + 1]
    /\ UNCHANGED << config, is_initialized_, pc, result, calls, logs, p_in,
                    p_out >>

\* a goal check on the average of the position errors
ReachedGoal_average(goal_pos, position, tolerance) ==
    (Abs(goal_pos[0] - position[0]) + Abs(goal_pos[1] - position[1]))
        < N_JOINTS * tolerance

\* the result of move_to_position for the position measured after the loop
ReachedGoal(goal_pos, position, tolerance) ==
    \A i \in Joints : Abs(goal_pos[i] - position[i]) < tolerance

\* the locals of move_to_position are gone when it returns
MoveToPositionLeft(f) ==
    [f EXCEPT !.goal_pos = NoFrame.goal_pos,
              !.time_steps = NoFrame.time_steps,
              !.t = NoFrame.t,
              !.initial_position = NoFrame.initial_position,
              !.position = NoFrame.position]

\* move_to_position after the loop: reads the position the goal is checked
\* against
move_to_position_check ==
    /\ pc = "move_to_position"
    /\ frame.t = frame.time_steps
    /\ \E observation \in Observations :
         frame' = [frame EXCEPT !.position = observation.position]
    /\ pc' = "move_to_position_return"
    /\ UNCHANGED << config, is_initialized_, action_counter_, last_tick, trace,
                    ticks, result, calls, logs, p_in, p_out >>

\* a move_to_position whose caller shutdown() goes on after a failed step
move_to_position_return_continues ==
    /\ pc = "move_to_position_return"
    /\ LET reached_goal ==
               ReachedGoal(frame.goal_pos, frame.position,
                           move_to_position_tolerance_rad)
       IN  IF frame.top = "initialize"
           THEN /\ frame' = [MoveToPositionLeft(frame) EXCEPT
                               !.reached_goal = reached_goal,
                               !.i = frame.i + 1]
                /\ pc' = "initial_move"
           ELSE /\ frame' = [MoveToPositionLeft(frame) EXCEPT
                               !.success = frame.success /\ reached_goal,
                               !.i = frame.i + 1]
                /\ pc' = "shutdown_move"
    /\ UNCHANGED << config, is_initialized_, action_counter_, last_tick, trace,
                    ticks, result, calls, logs, p_in, p_out >>

\* a move_to_position whose caller _initialize() keeps a failure of an
\* earlier joint's move
move_to_position_return_accumulates ==
    /\ pc = "move_to_position_return"
    /\ LET reached_goal ==
               ReachedGoal(frame.goal_pos, frame.position,
                           move_to_position_tolerance_rad)
       IN  IF frame.top = "initialize"
           THEN /\ frame' = [MoveToPositionLeft(frame) EXCEPT
                               !.reached_goal =
                                   (frame.i = 0 \/ frame.reached_goal)
                                   /\ reached_goal,
                               !.i = frame.i + 1]
                /\ pc' = "initial_move"
           ELSE /\ frame' = [MoveToPositionLeft(frame) EXCEPT
                               !.success = frame.success /\ reached_goal,
                               !.i = frame.i + 1]
                /\ pc' = IF frame.success /\ reached_goal
                         THEN "shutdown_move" ELSE "shutdown_pause"
    /\ UNCHANGED << config, is_initialized_, action_counter_, last_tick, trace,
                    ticks, result, calls, logs, p_in, p_out >>

\* move_to_position returns, to the loop of _initialize() or to the loop of
\* shutdown() (which stops at the first failed step).
move_to_position_return ==
    /\ pc = "move_to_position_return"
    /\ LET reached_goal ==
               ReachedGoal(frame.goal_pos, frame.position,
                           move_to_position_tolerance_rad)
       IN  IF frame.top = "initialize"
           THEN /\ frame' = [MoveToPositionLeft(frame) EXCEPT
                               !.reached_goal = reached_goal,
                               !.i = frame.i + 1]
                /\ pc' = "initial_move"
           ELSE /\ frame' = [MoveToPositionLeft(frame) EXCEPT
                               !.success = frame.success /\ reached_goal,
                               !.i = frame.i + 1]
                /\ pc' = IF frame.success /\ reached_goal
                         THEN "shutdown_move" ELSE "shutdown_pause"
    /\ UNCHANGED << config, is_initialized_, action_counter_, last_tick, trace,
                    ticks, result, calls, logs, p_in, p_out >>

\* _initialize(): the second pause_motors()
final_pause ==
    /\ pc = "final_pause"
    /\ trace' = Recorded(trace, "pause_motors")
    /\ pc' = "set_is_initialized"
    /\ UNCHANGED << config, is_initialized_, action_counter_, frame, last_tick,
                    ticks, result, calls, logs, p_in, p_out >>

\* _initialize() with the flag also gated by the move to the initial position
set_is_initialized_if_reached ==
    /\ pc = "set_is_initialized"
    /\ is_initialized_' = (frame.homing_succeeded /\ frame.reached_goal)
    /\ trace' = Recorded(trace, "set_is_initialized")
    /\ pc' = "join"
    /\ UNCHANGED << config, action_counter_, frame, last_tick, ticks, result,
                    calls, logs, p_in, p_out >>

\* an _initialize() that never clears the flag
set_is_initialized_sticky ==
    /\ pc = "set_is_initialized"
    /\ is_initialized_' = (is_initialized_ \/ frame.homing_succeeded)
    /\ trace' = Recorded(trace, "set_is_initialized")
    /\ pc' = "join"
    /\ UNCHANGED << config, action_counter_, frame, last_tick, ticks, result,
                    calls, logs, p_in, p_out >>

\* _initialize(): is_initialized_ = homing_succeeded
set_is_initialized ==
    /\ pc = "set_is_initialized"
    /\ is_initialized_' = frame.homing_succeeded
    /\ trace' = Recorded(trace, "set_is_initialized")
    /\ pc' = "join"
    /\ UNCHANGED << config, action_counter_, frame, last_tick, ticks, result,
                    calls, logs, p_in, p_out >>

\* an initialize() that does not wait for its thread: it may return to the
\* caller while _initialize() is still running
initialize_return_detached ==
    \/ /\ pc = "join"
       /\ pc' = "idle"
       /\ result' = [op |-> "initialize", status |-> "returned"]
       /\ frame' = NoFrame
       /\ last_tick' = NoTick
       /\ trace' = << >>
       /\ ticks' = 0
       /\ UNCHANGED << config, is_initialized_, action_counter_, calls, logs,
                       p_in, p_out >>
    \/ /\ frame.top = "initialize"
       /\ pc # "join"
       /\ result = [op |-> "initialize", status |-> "running"]
       /\ result' = [op |-> "initialize", status |-> "returned"]
       /\ UNCHANGED << config, is_initialized_, action_counter_, pc, frame,
                       last_tick, trace, ticks, calls, logs, p_in, p_out >>

\* initialize(): realtime_thread.join() returns
initialize_return ==
    /\ pc = "join"
    /\ pc' = "idle"
    /\ result' = [op |-> "initialize", status |-> "returned"]
    /\ frame' = NoFrame
    /\ last_tick' = NoTick
    /\ trace' = << >>
    /\ ticks' = 0
    /\ UNCHANGED << config, is_initialized_, action_counter_, calls, logs,
                    p_in, p_out >>

\* ------------------------------------------------------------------------
\* shutdown
\* ------------------------------------------------------------------------

shutdown ==
    /\ pc = "idle"
    /\ calls < MaxCalls
    /\ Called("shutdown", "running")
    /\ pc' = "shutdown_move"
    /\ frame' = [NoFrame EXCEPT !.top = "shutdown"]
    /\ trace' = << >>
    /\ ticks' = 0
    /\ last_tick' = NoTick
    /\ UNCHANGED << config, is_initialized_, action_counter_, logs, p_in,
                    p_out >>

\* shutdown(): one iteration of the loop over the trajectory, up to the
\* call of move_to_position
shutdown_move_call ==
    /\ pc = "shutdown_move"
    /\ frame.i < Len(config.shutdown_trajectory)
    /\ LET step == config.shutdown_trajectory[frame.i + 1]
       IN  MoveToPositionCalled(frame, step.target_position_rad,
                                step.move_steps)
    /\ pc' = "move_to_position"
    /\ UNCHANGED << config, is_initialized_, action_counter_, last_tick, trace,
                    ticks, result, calls, logs, p_in, p_out >>

\* shutdown(): the loop over the trajectory is through
shutdown_move_done ==
    /\ pc = "shutdown_move"
    /\ frame.i = Len(config.shutdown_trajectory)
    /\ pc' = "shutdown_pause"
    /\ UNCHANGED << config, is_initialized_, action_counter_, frame, last_tick,
                    trace, ticks, result, calls, logs, p_in, p_out >>

\* shutdown(): pause_motors(), and the message when a step failed
shutdown_pause ==
    /\ pc = "shutdown_pause"
    /\ trace' = IF ~frame.success
                THEN Recorded(Recorded(trace, "pause_motors"),
                              "print_failed_to_reach_rest_position")
                ELSE Recorded(trace, "pause_motors")
    /\ frame' = [frame EXCEPT !.i = 0]
    /\ pc' = "shutdown_log"
    /\ UNCHANGED << config, is_initialized_, action_counter_, last_tick, ticks,
                    result, calls, logs, p_in, p_out >>

\* shutdown(): one run duration log file; opening it may fail
shutdown_write_log ==
    /\ pc = "shutdown_log"
    /\ frame.i < Len(run_duration_logfiles)
    /\ \E opened \in BOOLEAN :
         IF opened
         THEN /\ logs' = [logs EXCEPT
                            ![frame.i + 1] = Append(@, action_counter_)]
              /\ trace' = Recorded(trace, "write_log")
         ELSE /\ trace' = Recorded(trace, "failed_to_open_log")
              /\ UNCHANGED logs
    /\ frame' = [frame EXCEPT !.i = frame.i + 1]
    /\ UNCHANGED << config, is_initialized_, action_counter_, pc, last_tick,
                    ticks, result, calls, p_in, p_out >>

\* shutdown() returns.  It is the last call the caller makes.
shutdown_return ==
    /\ pc = "shutdown_log"
    /\ frame.i = Len(run_duration_logfiles)
    /\ pc' = "stopped"
    /\ result' = [op |-> "shutdown", status |-> "returned"]
    /\ frame' = NoFrame
    /\ last_tick' = NoTick
    /\ trace' = << >>
    /\ ticks' = 0
    /\ UNCHANGED << config, is_initialized_, action_counter_, calls, logs,
                    p_in, p_out >>

\* ------------------------------------------------------------------------
\* The driver
\* ------------------------------------------------------------------------

Next ==
    \/ \E desired_action \in DesiredActions : apply_action(desired_action)
    \/ initialize
    \/ homing_endstop_search
    \/ move_until_blocking_step
    \/ move_until_blocking_return
    \/ homing_none
    \/ homing_index
    \/ homing_current_position
    \/ homing_release_step
    \/ homing_release_reference
    \/ pause_after_homing
    \/ initial_move_call
    \/ initial_move_done
    \/ move_to_position_step
    \/ move_to_position_check
    \/ move_to_position_return
    \/ final_pause
    \/ set_is_initialized
    \/ initialize_return
    \/ shutdown
    \/ shutdown_move_call
    \/ shutdown_move_done
    \/ shutdown_pause
    \/ shutdown_write_log
    \/ shutdown_return

Spec == Init /\ [][Next]_vars

\* ------------------------------------------------------------------------
\* process_desired_action on its own
\* ------------------------------------------------------------------------

\* gain overrides of one joint: none, or kp = 2 and kd = 0
GainOverrides == {<< NaN, NaN >>, << 2, 0 >>}

\* desired actions: per joint a torque, a position target or none, and gain
\* overrides or none
PipelineActions ==
    {[torque |-> torque,
      position |-> position,
      position_kp |-> [i \in Joints |-> gains[i][1]],
      position_kd |-> [i \in Joints |-> gains[i][2]]] :
        torque \in [Joints -> {0 - 5, 0, 3}],
        position \in [Joints -> {NaN, 0 - 2, 0, 2}],
        gains \in [Joints -> GainOverrides]}

PipelineObservations ==
    [position : [Joints -> {0 - 2, 0, 2}],
     velocity : [Joints -> {0 - 3, 0, 3}]]

\* limit vectors: [-1, 1] for both joints, unbounded, and a pair whose
\* lower limit is above the upper limit for joint 1
PipelineLimits ==
    {[lower |-> Vec(0 - 1, 0 - 1), upper |-> Vec(1, 1)],
     [lower |-> VectorConstant(0 - Infinity),
      upper |-> VectorConstant(Infinity)],
     [lower |-> Vec(0 - 1, 1), upper |-> Vec(1, 0 - 1)]}

PipelineInputs ==
    [desired : PipelineActions,
     observation : PipelineObservations,
     limits : PipelineLimits,
     max_torque_Nm : {4},
     safety_kd : {Vec(0, 0), Vec(1, 1)},
     kp : {Vec(1, 1)},
     kd : {Vec(1, 1)}]

PipelineInit ==
    /\ config \in {c \in Configs : /\ c.homing_method = "NONE"
                                   /\ ~c.has_endstop
                                   /\ isZero(c.endstop_search_torques_Nm)
                                   /\ c.shutdown_trajectory = << >>}
    /\ is_initialized_ = FALSE
    /\ action_counter_ = 0
    /\ pc = "pipeline"
    /\ frame = NoFrame
    /\ last_tick = NoTick
    /\ trace = << >>
    /\ ticks = 0
    /\ result = [op |-> None, status |-> None]
    /\ calls = 0
    /\ logs = [f \in 1 .. Len(run_duration_logfiles) |-> << >>]
    /\ p_in \in PipelineInputs
    /\ p_out = NoCall

\* one call of process_desired_action
process_call ==
    /\ pc = "pipeline"
    /\ p_out = NoCall
    /\ p_out' = process_desired_action(p_in.desired, p_in.observation,
                                       p_in.max_torque_Nm, p_in.safety_kd,
                                       p_in.kp, p_in.kd, p_in.limits.lower,
                                       p_in.limits.upper)
    /\ UNCHANGED << config, is_initialized_, action_counter_, pc, frame,
                    last_tick, trace, ticks, result, calls, logs, p_in >>

PipelineNext == process_call

PipelineSpec == PipelineInit /\ [][PipelineNext]_vars

\* the driver and process_desired_action on its own, side by side
AllInit == Init \/ PipelineInit

AllNext == Next \/ PipelineNext

AllSpec == AllInit /\ [][AllNext]_vars

\* ------------------------------------------------------------------------
\* move_until_blocking followed for as long as it runs
\* ------------------------------------------------------------------------

\* the action counter and the number of ticks are not followed beyond this
\* value while the loop of move_until_blocking runs
MaxCount == MaxBlockingSteps + 1

\* the running sums are not followed beyond this value
MaxSum == 4 * STOP_VELOCITY * SIZE_VELOCITY_WINDOW

Min(a, b) == IF a < b THEN a ELSE b

\* an end-stop method on hardware with end-stop and search torques
BlockingConfigs ==
    {c \in Configs : /\ c.homing_method = "ENDSTOP"
                     /\ c.has_endstop
                     /\ ~isZero(c.endstop_search_torques_Nm)}

\* a driver that was never initialized; one call of the public interface is
\* left in the run
BlockingInit ==
    /\ config \in BlockingConfigs
    /\ is_initialized_ = FALSE
    /\ action_counter_ = 0
    /\ pc = "idle"
    /\ frame = NoFrame
    /\ last_tick = NoTick
    /\ trace = << >>
    /\ ticks = 0
    /\ result = [op |-> None, status |-> None]
    /\ calls = MaxCalls - 1
    /\ logs = [f \in 1 .. Len(run_duration_logfiles) |-> << >>]
    /\ p_in = NoCall
    /\ p_out = NoCall

\* One iteration of the loop of move_until_blocking, whatever the number of
\* iterations before it.
move_until_blocking_iteration ==
    /\ pc = "move_until_blocking"
    /\ KeepsMoving(frame.step_count, frame.summed_velocities)
    /\ \E observation \in Observations :
         last_tick' = applied_tick(
                          ActionTorque(config.endstop_search_torques_Nm),
                          observation, "move_until_blocking")
    /\ action_counter_' = Min(action_counter_ + 1, MaxCount)
    /\ ticks' = Min(ticks + 1, MaxCount)
    /\ trace' = Recorded(trace, "move_until_blocking")
    /\ \E observation \in Observations :
         /\ frame' = velocity_window_update(frame, observation)
         /\ \A i \in Joints : frame'.summed_velocities[i] <= MaxSum
    /\ UNCHANGED << config, is_initialized_, pc, result, calls, logs, p_in,
                    p_out >>

BlockingNext ==
    \/ initialize
    \/ homing_endstop_search
    \/ move_until_blocking_iteration
    \/ move_until_blocking_return
    \/ homing_current_position
    \/ pause_after_homing
    \/ initial_move_call
    \/ initial_move_done
    \/ move_to_position_step
    \/ move_to_position_check
    \/ move_to_position_return
    \/ final_pause
    \/ set_is_initialized
    \/ initialize_return

\* the initialization thread runs as long as it has a step to take
BlockingSpec == BlockingInit /\ [][BlockingNext]_vars /\ WF_vars(BlockingNext)

\* ------------------------------------------------------------------------
\* homing on the encoder index, for every sign pattern of the search torques
\* ------------------------------------------------------------------------

\* the search torques of the index runs: every joint pushes forwards,
\* backwards or not at all
IndexSearchTorques == [Joints -> {0 - SearchTorque, 0, SearchTorque}]

IndexConfigs ==
    [homing_method : {"NEXT_INDEX", "ENDSTOP_INDEX"},
     has_endstop : BOOLEAN,
     endstop_search_torques_Nm : IndexSearchTorques,
     shutdown_trajectory : {shutdown_trajectory}]

\* a driver that was never initialized; one call of the public interface is
\* left in the run
IndexInit ==
    /\ config \in IndexConfigs
    /\ is_initialized_ = FALSE
    /\ action_counter_ = 0
    /\ pc = "idle"
    /\ frame = NoFrame
    /\ last_tick = NoTick
    /\ trace = << >>
    /\ ticks = 0
    /\ result = [op |-> None, status |-> None]
    /\ calls = MaxCalls - 1
    /\ logs = [f \in 1 .. Len(run_duration_logfiles) |-> << >>]
    /\ p_in = NoCall
    /\ p_out = NoCall

IndexNext ==
    \/ initialize
    \/ homing_endstop_search
    \/ move_until_blocking_step
    \/ move_until_blocking_return
    \/ homing_index
    \/ pause_after_homing
    \/ initial_move_call
    \/ initial_move_done
    \/ move_to_position_step
    \/ move_to_position_check
    \/ move_to_position_return
    \/ final_pause
    \/ set_is_initialized
    \/ initialize_return

IndexSpec == IndexInit /\ [][IndexNext]_vars

\* ------------------------------------------------------------------------
\* get_error
\* ------------------------------------------------------------------------

\* blmc_drivers::MotorBoardStatus::ErrorCodes, and a value that is none of
\* them
ErrorCodes ==
    {"NONE", "ENCODER", "CAN_RECV_TIMEOUT", "CRIT_TEMP", "POSCONV",
     "POS_ROLLOVER", "OTHER", "UNLISTED"}

\* the switch over the error code; "" when there is no error
board_error_msg(error_code) ==
    CASE error_code = "NONE" -> ""
      [] error_code = "ENCODER" -> "Encoder Error"
      [] error_code = "CAN_RECV_TIMEOUT" -> "CAN Receive Timeout"
      [] error_code = "CRIT_TEMP" -> "Critical Temperature"
      [] error_code = "POSCONV" -> "Error in SpinTAC Position Convert module"
      [] error_code = "POS_ROLLOVER" -> "Position Rollover"
      [] error_code = "OTHER" -> "Other Error"
      [] OTHER -> "Unknown Error"

\* std::to_string(i) for the board indices
to_string(i) == << "0", "1", "2", "3" >>[i + 1]

\* A std::string is the sequence of the pieces it was put together from;
\* the empty string is the empty sequence.
\* error_msg after the iterations of the loop over the first n boards
RECURSIVE board_errors(_, _)
board_errors(status, n) ==
    IF n = 0 THEN << >>
    ELSE
        LET error_msg == board_errors(status, n - 1)
            i == n - 1
            status_timeseries == status[i]
            msg ==
                IF Len(status_timeseries) > 0
                THEN board_error_msg(status_timeseries[Len(status_timeseries)])
                ELSE ""
        IN  IF msg # ""
            THEN (IF error_msg # << >> THEN Append(error_msg, "  ")
                  ELSE error_msg)
                 \o << "[Board ", to_string(i), "] ", msg >>
            ELSE error_msg

\* get_error() for the status time series of the boards and the measured
\* angles
get_error(status, position) ==
    LET error_msg == board_errors(status, N_MOTOR_BOARDS)
    IN  IF ~is_within_hard_position_limits(position)
        THEN (IF error_msg # << >> THEN Append(error_msg, " | ")
              ELSE error_msg)
             \o << "Position limits exceeded." >>
        ELSE error_msg

\* status time series of one board: empty, one status, or an older status
\* (no error or an encoder error) followed by the newest one
StatusTimeseries ==
    {<< >>}
    \cup {<< newest >> : newest \in ErrorCodes}
    \cup {<< older, newest >> :
            older \in {"NONE", "ENCODER"}, newest \in ErrorCodes}

\* measured angles of one joint: inside, on and beyond the hard limits
MeasuredAngles ==
    {0 - 3 * PosUnit, 0 - 2 * PosUnit, 0, 2 * PosUnit, 3 * PosUnit}

ErrorInputs ==
    [status : [MotorBoards -> StatusTimeseries],
     position : [Joints -> MeasuredAngles]]

ErrorInit ==
    /\ config \in {c \in Configs : /\ c.homing_method = "NONE"
                                   /\ ~c.has_endstop
                                   /\ isZero(c.endstop_search_torques_Nm)
                                   /\ c.shutdown_trajectory = << >>}
    /\ is_initialized_ = FALSE
    /\ action_counter_ = 0
    /\ pc = "get_error"
    /\ frame = NoFrame
    /\ last_tick = NoTick
    /\ trace = << >>
    /\ ticks = 0
    /\ result = [op |-> None, status |-> None]
    /\ calls = 0
    /\ logs = [f \in 1 .. Len(run_duration_logfiles) |-> << >>]
    /\ p_in \in ErrorInputs
    /\ p_out = NoCall

\* one call of get_error()
get_error_call ==
    /\ pc = "get_error"
    /\ p_out = NoCall
    /\ p_out' = [called |-> TRUE,
                 error_msg |-> get_error(p_in.status, p_in.position)]
    /\ UNCHANGED << config, is_initialized_, action_counter_, pc, frame,
                    last_tick, trace, ticks, result, calls, logs, p_in >>

ErrorNext == get_error_call

ErrorSpec == ErrorInit /\ [][ErrorNext]_vars

\* the driver's lifecycle and get_error side by side
CounterInit == Init \/ ErrorInit

CounterNext == Next \/ ErrorNext

CounterSpec == CounterInit /\ [][CounterNext]_vars

\* ------------------------------------------------------------------------
\* Properties
\* ------------------------------------------------------------------------

\* C1: a call of apply_action made while is_initialized_ is false ends with
\* the runtime_error and runs no tick: the action counter, the last tick
\* and what was sent to the hardware are unchanged.
C1_RejectedWhenNotInitialized ==
    [][(/\ calls' = calls + 1
        /\ result'.op = "apply_action"
        /\ ~is_initialized_)
       => (/\ result'.status = "runtime_error"
           /\ action_counter_' = action_counter_
           /\ last_tick' = last_tick
           /\ ticks' = ticks
           /\ trace' = trace
           /\ is_initialized_' = is_initialized_)]_vars

\* C1 happens: apply_action was rejected after an initialize() that ran
\* ticks and whose homing failed.
C1_Witness ==
    /\ result = [op |-> "apply_action", status |-> "runtime_error"]
    /\ ~is_initialized_
    /\ action_counter_ > 0

Count(seq, ev) == Cardinality({k \in 1 .. Len(seq) : seq[k] = ev})

\* C2: in a run of initialize() the ready flag is written once, as the last
\* step, right after the final pause_motors(), and the value written is the
\* result of homing(); nothing else changes the flag.
C2_FlagWrittenOnceLast ==
    /\ [](/\ (frame.top = "initialize" /\ pc # "join")
              => Count(trace, "set_is_initialized") = 0
          /\ pc = "join"
              => /\ Count(trace, "set_is_initialized") = 1
                 /\ Len(trace) >= 2
                 /\ trace[Len(trace)] = "set_is_initialized"
                 /\ trace[Len(trace) - 1] = "pause_motors"
                 /\ is_initialized_ = frame.homing_succeeded)
    /\ [][is_initialized_' # is_initialized_
          => (pc = "set_is_initialized" /\ pc' = "join")]_vars

\* C2 happens: the move to the initial position missed the tolerance and
\* the flag was set all the same.
C2_Witness ==
    /\ pc = "join"
    /\ Count(trace, "print_failed_to_reach_initial_position") = 1
    /\ is_initialized_

\* C3: every tick of a run of initialize() is processed with unbounded
\* limits, also when the driver was Ready before.
C3_InitializeTicksUnbounded ==
    (frame.top = "initialize" /\ last_tick.issuer # None)
        => Unbounded(last_tick.lower, last_tick.upper)

WithinLimits(position, lower, upper) ==
    \A i \in Joints :
        ~IsNaN(position[i]) => (lower[i] <= position[i] /\ position[i] <= upper[i])

\* C5 as stated: on every tick a position target that is set in the applied
\* action lies within the hard limits.
C5_TargetWithinHardLimits ==
    last_tick.issuer # None
        => WithinLimits(last_tick.applied.position,
                        hard_position_limits_lower,
                        hard_position_limits_upper)

\* C5, amended: on every tick processed while the ready flag is true a
\* position target that is set in the applied action lies within the soft
\* limits.
C5_TargetWithinSoftLimitsWhenReady ==
    (last_tick.issuer # None /\ last_tick.initialized)
        => WithinLimits(last_tick.applied.position,
                        soft_position_limits_lower,
                        soft_position_limits_upper)

\* C5 happens: apply_action with a target beyond the soft limits, applied at
\* the soft limit.
C5_Witness ==
    /\ last_tick.issuer = "apply_action"
    /\ last_tick.desired.position[0] > soft_position_limits_upper[0]
    /\ last_tick.applied.position[0] = soft_position_limits_upper[0]
    /\ last_tick.desired.position[1] < soft_position_limits_lower[1]
    /\ last_tick.applied.position[1] = soft_position_limits_lower[1]

\* the limit vectors of the call are in order
LimitsOrdered == \A i \in Joints : p_in.limits.lower[i] <= p_in.limits.upper[i]

\* C6: with lower <= upper, a position target that is set is returned within
\* [lower, upper], at the nearest bound when it was outside and unchanged
\* when it was inside; an unset target of a joint measured inside the limits
\* stays unset.
C6_PositionClamped ==
    (p_out # NoCall /\ LimitsOrdered)
        => \A i \in Joints :
             LET desired == p_in.desired.position[i]
                 measured == p_in.observation.position[i]
                 lower == p_in.limits.lower[i]
                 upper == p_in.limits.upper[i]
                 returned == p_out.position[i]
             IN  /\ ~IsNaN(desired)
                     => /\ ~IsNaN(returned)
                        /\ lower <= returned /\ returned <= upper
                        /\ desired < lower => returned = lower
                        /\ desired > upper => returned = upper
                        /\ (lower <= desired /\ desired <= upper)
                              => returned = desired
                 /\ (IsNaN(desired) /\ lower <= measured /\ measured <= upper)
                     => IsNaN(returned)

\* C6 happens: limits [-1, 1], desired position [2, -2], returned [1, -1].
C6_Witness ==
    /\ p_out # NoCall
    /\ p_in.limits.lower = Vec(0 - 1, 0 - 1)
    /\ p_in.limits.upper = Vec(1, 1)
    /\ p_in.desired.position = Vec(2, 0 - 2)
    /\ p_out.position = Vec(1, 0 - 1)

\* C7 as stated (for limits in order): a joint measured above its upper
\* limit gets a torque <= 0, a joint measured below its lower limit a torque
\* >= 0, whatever its measured velocity.
C7_TorqueNeverPushesOut ==
    p_out # NoCall
        => \A i \in Joints :
             (p_in.limits.lower[i] <= p_in.limits.upper[i])
                => /\ p_in.observation.position[i] > p_in.limits.upper[i]
                       => p_out.torque[i] <= 0
                   /\ p_in.observation.position[i] < p_in.limits.lower[i]
                       => p_out.torque[i] >= 0

\* C7, amended: the same for a joint that is not already moving back towards
\* the limits (velocity >= 0 above the upper limit, <= 0 below the lower
\* limit).
C7_TorqueNeverPushesOutUnlessReturning ==
    p_out # NoCall
        => \A i \in Joints :
             (p_in.limits.lower[i] <= p_in.limits.upper[i])
                => /\ (/\ p_in.observation.position[i] > p_in.limits.upper[i]
                       /\ p_in.observation.velocity[i] >= 0)
                       => p_out.torque[i] <= 0
                   /\ (/\ p_in.observation.position[i] < p_in.limits.lower[i]
                       /\ p_in.observation.velocity[i] <= 0)
                       => p_out.torque[i] >= 0

\* C7 happens: joint 0 measured above its upper limit, at rest, with a
\* desired torque that pushes further out; the returned torque pulls back.
C7_Witness ==
    /\ p_out # NoCall
    /\ p_in.limits.upper[0] = 1
    /\ p_in.observation.position[0] = 2
    /\ p_in.observation.velocity[0] = 0
    /\ p_in.desired.torque[0] = 3
    /\ p_out.torque[0] < 0

TorqueBounded(torque, max_torque) ==
    \A i \in Joints : 0 - max_torque <= torque[i] /\ torque[i] <= max_torque

\* C8: the torque returned by process_desired_action is within
\* +-max_torque_Nm, and so is the torque sent to the joints on every tick.
C8_TorqueWithinMax ==
    /\ p_out # NoCall => TorqueBounded(p_out.torque, p_in.max_torque_Nm)
    /\ last_tick.issuer # None
          => TorqueBounded(last_tick.sent_torque, max_torque_Nm)

\* C8 happens: the damping pushes a clamped torque out of range again and
\* the second clamp brings it back.
C8_Witness ==
    /\ p_out # NoCall
    /\ p_in.desired.torque[0] = 0 - 5
    /\ p_in.observation.velocity[0] = 3
    /\ p_in.safety_kd[0] = 1
    /\ p_out.torque[0] = 0 - p_in.max_torque_Nm

\* the configurations on which homing() fails fast
FailsFast ==
    \/ /\ config.homing_method \in EndstopMethods
       /\ ~config.has_endstop \/ isZero(config.endstop_search_torques_Nm)
    \/ /\ config.homing_method = "NEXT_INDEX"
       /\ isZero(config.endstop_search_torques_Nm)

\* C9: on these configurations no step of homing() runs a tick, changes the
\* action counter or calls the joint modules, and homing() returns false
\* (from the first switch for the end-stop methods).
C9_FailFastNoMotion ==
    [][(pc \in {"homing", "homing_reference"} /\ FailsFast)
       => (/\ action_counter_' = action_counter_
           /\ ticks' = ticks
           /\ last_tick' = last_tick
           /\ trace' = trace
           /\ pc' \in {"homing_reference", "pause_after_homing"}
           /\ config.homing_method \in EndstopMethods
                 => pc' = "pause_after_homing"
           /\ pc' = "pause_after_homing"
                 => /\ ~frame'.homing_succeeded
                    /\ frame'.collaborator_status = None)]_vars

\* C9 happens: ENDSTOP_RELEASE on hardware with an end-stop and zero search
\* torques; homing() has returned false.
C9_Witness ==
    /\ pc = "pause_after_homing"
    /\ config.homing_method = "ENDSTOP_RELEASE"
    /\ config.has_endstop
    /\ isZero(config.endstop_search_torques_Nm)
    /\ ~frame.homing_succeeded
    /\ ticks = 0

\* C10: when homing() has returned, its result is true exactly when the
\* reference step succeeded: NONE succeeds without a tick or a call of the
\* joint modules, the index methods return the outcome of execute_homing, the
\* others the outcome of execute_homing_at_current_position, an early return
\* gives false, and no error is raised.
C10_HomingResult ==
    pc = "pause_after_homing"
        => LET method == config.homing_method
               status == frame.collaborator_status
               called == trace[Len(trace)]
           IN  /\ frame.homing_succeeded
                     = (method = "NONE" \/ status = "SUCCEEDED")
               /\ method = "NONE"
                     => /\ status = None
                        /\ ticks = 0
                        /\ trace = << "set_position_control_gains" >>
               /\ (method \in {"NEXT_INDEX", "ENDSTOP_INDEX"} /\ status # None)
                     => called = "execute_homing"
               /\ (method \in {"CURRENT_POSITION", "ENDSTOP",
                               "ENDSTOP_RELEASE"} /\ status # None)
                     => called = "execute_homing_at_current_position"
               /\ (method # "NONE" /\ status = None) => FailsFast
               /\ FailsFast => status = None
               /\ result = [op |-> "initialize", status |-> "running"]

\* C10 happens: ENDSTOP_INDEX, the index search reported RUNNING and
\* homing() returned false.
C10_Witness ==
    /\ pc = "pause_after_homing"
    /\ config.homing_method = "ENDSTOP_INDEX"
    /\ frame.collaborator_status = "RUNNING"
    /\ ~frame.homing_succeeded
    /\ ticks >= MIN_STEPS_MOVE_TO_END_STOP

\* the ticks of the first n steps of a trajectory
RECURSIVE MoveStepsUpTo(_, _)
MoveStepsUpTo(trajectory, n) ==
    IF n = 0 THEN 0
    ELSE MoveStepsUpTo(trajectory, n - 1) + trajectory[n].move_steps

LogEvents == {"write_log", "failed_to_open_log"}

\* what shutdown() has done when it is in its loop over the log files, with
\* n log files through
ShutdownTraceUpToLog(n) ==
    /\ Count(trace, "pause_motors") = 1
    /\ \E k \in 1 .. Len(trace) :
         /\ trace[k] = "pause_motors"
         /\ \A j \in 1 .. (k - 1) : trace[j] = "move_to_position"
         /\ (k > 1) = (ticks > 0)
         /\ LET rest == SubSeq(trace, k + 1, Len(trace))
                printed == IF frame.success THEN 0 ELSE 1
            IN  /\ Len(rest) = printed + n
                /\ ~frame.success
                      => rest[1] = "print_failed_to_reach_rest_position"
                /\ \A j \in (printed + 1) .. Len(rest) : rest[j] \in LogEvents

\* C11: shutdown() runs the waypoints of the shutdown trajectory in the
\* configured order and stops at the first one whose move_to_position returns
\* false, so that no tick of a later waypoint is applied; whether the
\* trajectory is empty, was run to its end or was aborted, pause_motors() is
\* called once after the last waypoint that was run, no tick follows it, and
\* after it the write of the run duration log is attempted for every
\* configured log file, also when an earlier one could not be opened.
C11_ShutdownSequence ==
    /\ [](frame.top = "shutdown"
          => LET trajectory == config.shutdown_trajectory
             IN  /\ pc \in {"move_to_position", "move_to_position_return"}
                       => /\ frame.i < Len(trajectory)
                          /\ frame.success
                          /\ frame.goal_pos
                                = trajectory[frame.i + 1].target_position_rad
                          /\ frame.time_steps
                                = trajectory[frame.i + 1].move_steps
                          /\ ticks = MoveStepsUpTo(trajectory, frame.i) + frame.t
                          /\ Count(trace, "pause_motors") = 0
                 /\ pc = "shutdown_move"
                       => /\ frame.success
                          /\ frame.i <= Len(trajectory)
                          /\ ticks = MoveStepsUpTo(trajectory, frame.i)
                 /\ pc = "shutdown_pause"
                       => /\ IF frame.success
                             THEN frame.i = Len(trajectory)
                             ELSE frame.i \in 1 .. Len(trajectory)
                          /\ ticks = MoveStepsUpTo(trajectory, frame.i)
                          /\ Count(trace, "pause_motors") = 0
                 /\ pc = "shutdown_log"
                       => /\ frame.i <= Len(run_duration_logfiles)
                          /\ ShutdownTraceUpToLog(frame.i)
                          /\ ticks <= MoveStepsUpTo(trajectory,
                                                    Len(trajectory)))
    /\ [][frame.top = "shutdown"
          => /\ pc = "move_to_position_return"
                  => IF ReachedGoal(frame.goal_pos, frame.position,
                                    move_to_position_tolerance_rad)
                     THEN pc' = "shutdown_move" /\ frame'.success
                     ELSE pc' = "shutdown_pause" /\ ~frame'.success
             /\ pc = "shutdown_pause" => pc' = "shutdown_log" /\ ticks' = ticks
             /\ pc = "shutdown_log"
                  => \/ /\ pc' = "shutdown_log"
                        /\ ticks' = ticks
                        /\ frame'.i = frame.i + 1
                     \/ /\ pc' = "stopped"
                        /\ frame.i = Len(run_duration_logfiles)]_vars

\* C11 happens: the first of two waypoints missed its goal, the second was
\* not run, the motors were paused, and both log files were attempted, one
\* of which could not be opened.
C11_Witness ==
    /\ pc = "shutdown_log"
    /\ Len(config.shutdown_trajectory) = 2
    /\ ~frame.success
    /\ ticks = config.shutdown_trajectory[1].move_steps
    /\ frame.i = Len(run_duration_logfiles)
    /\ Count(trace, "failed_to_open_log") = 1
    /\ Count(trace, "write_log") = 1
    /\ trace[Len(trace)] = "write_log"

\* the lifecycle states other than Uninitialized and Ready: a run of
\* initialize() up to its write of the ready flag, a run of shutdown(), and
\* the driver after shutdown() has returned
Initializing == frame.top = "initialize" /\ pc # "join"

ShuttingDown == frame.top = "shutdown"

Stopped == pc = "stopped"

\* C12: the ready flag is true only in the lifecycle state Ready: it is false
\* while initialize() runs, and false again once shutdown() has been called
\* and after it has returned.
C12_FlagOnlyWhenReady ==
    (Initializing \/ ShuttingDown \/ Stopped) => ~is_initialized_

\* C13 as stated: an apply_action call made while the ready flag is false
\* (as it is after a failed homing) runs a tick through the pipeline, with
\* unbounded limits.
C13_AcceptedAfterFailedHoming ==
    (result.op = "apply_action" /\ ~is_initialized_)
        => /\ result.status = "returned"
           /\ last_tick.issuer = "apply_action"
           /\ Unbounded(last_tick.lower, last_tick.upper)

\* C13, amended: an initialize() whose homing failed made no move to the
\* initial position, paused the motors twice, wrote false to the ready flag
\* (also on a driver that was Ready before) and returns to its caller; an
\* apply_action call after it is refused with the runtime_error and runs no
\* tick.
C13_RefusedAfterFailedHoming ==
    /\ []((pc = "join" /\ ~frame.homing_succeeded)
            => /\ ~is_initialized_
               /\ Count(trace, "move_to_position") = 0
               /\ Count(trace, "pause_motors") = 2
               /\ SubSeq(trace, Len(trace) - 2, Len(trace))
                     = << "pause_motors", "pause_motors",
                          "set_is_initialized" >>)
    /\ []((result.op = "apply_action" /\ ~is_initialized_)
            => /\ result.status = "runtime_error"
               /\ last_tick = NoTick
               /\ ticks = 0)
    /\ [][(pc = "join" /\ ~frame.homing_succeeded)
            => (/\ pc' = "idle"
                /\ ~is_initialized_'
                /\ result' = [op |-> "initialize", status |-> "returned"]
                /\ action_counter_' = action_counter_)]_vars
    /\ [][(/\ ~is_initialized_
           /\ calls' = calls + 1
           /\ result'.op = "apply_action")
            => (/\ result'.status = "runtime_error"
                /\ action_counter_' = action_counter_
                /\ pc' = "idle")]_vars

\* C13 happens: ENDSTOP homing ran the end-stop search, the reference step
\* failed, initialize() returned, and the apply_action call after it was
\* refused.
C13_Witness ==
    /\ result = [op |-> "apply_action", status |-> "runtime_error"]
    /\ config.homing_method = "ENDSTOP"
    /\ action_counter_ >= MIN_STEPS_MOVE_TO_END_STOP
    /\ calls = 2
    /\ ~is_initialized_
    /\ pc = "idle"

\* initialize() was called and has not returned to its caller
InInitialize == result = [op |-> "initialize", status |-> "running"]

\* C14: every step of the initialization thread -- a tick, a pause, a call
\* of the joint modules, the write of the ready flag -- is taken while
\* initialize() has not returned; initialize() returns only when the thread
\* is through, and the flag the caller then sees is the value the thread
\* wrote; the caller makes its calls only when no thread is running, so a
\* tick of apply_action is never concurrent with a tick of initialization.
C14_InitializeJoins ==
    /\ [](/\ (frame.top = "initialize") = InInitialize
          /\ pc = "idle" => /\ frame = NoFrame
                            /\ last_tick.issuer \in {None, "apply_action"}
          /\ last_tick.issuer = "apply_action" => pc = "idle")
    /\ [][(/\ frame.top = "initialize"
           /\ \/ action_counter_' # action_counter_
              \/ trace' # trace
              \/ is_initialized_' # is_initialized_
              \/ pc' # pc)
            => (/\ InInitialize
                /\ \/ /\ pc # "join"
                      /\ result' = result
                      /\ calls' = calls
                   \/ /\ pc = "join"
                      /\ pc' = "idle"
                      /\ result' = [op |-> "initialize", status |-> "returned"]
                      /\ is_initialized_' = is_initialized_
                      /\ is_initialized_ = frame.homing_succeeded
                      /\ action_counter_' = action_counter_)]_vars
    /\ [][calls' # calls => (pc = "idle" /\ frame.top = None)]_vars

\* C14 happens: the thread ran ticks and set the flag, initialize() has
\* returned, and the caller has applied an action after it.
C14_Witness ==
    /\ result = [op |-> "apply_action", status |-> "returned"]
    /\ last_tick.issuer = "apply_action"
    /\ calls = 2
    /\ action_counter_ > 1
    /\ is_initialized_
    /\ config.homing_method = "ENDSTOP_RELEASE"

\* a pure position-target action: zero torque, a target for every joint, no
\* gain overrides
PurePositionAction(a) ==
    /\ a.torque = VectorZero
    /\ \A i \in Joints : ~IsNaN(a.position[i])
    /\ \A i \in Joints : IsNaN(a.position_kp[i]) /\ IsNaN(a.position_kd[i])

\* C15: move_to_position(goal_pos, tolerance, time_steps) starts with no
\* tick applied, applies one tick per iteration of its loop and nothing else
\* until time_steps ticks are applied (none when time_steps is 0), each with
\* a pure position-target action as desired action; it then reads the
\* position once and returns true exactly when |goal_pos[i] - position[i]| <
\* tolerance for every joint i.
C15_MoveToPosition ==
    /\ [](pc \in {"move_to_position", "move_to_position_return"}
            => /\ frame.t <= frame.time_steps
               /\ pc = "move_to_position_return"
                     => frame.t = frame.time_steps)
    /\ [][(pc # "move_to_position" /\ pc' = "move_to_position")
            => (frame'.t = 0 /\ ticks' = ticks)]_vars
    /\ [][pc = "move_to_position"
            => IF frame.t < frame.time_steps
               THEN /\ pc' = "move_to_position"
                    /\ frame'.t = frame.t + 1
                    /\ ticks' = ticks + 1
                    /\ action_counter_' = action_counter_ + 1
                    /\ last_tick'.issuer = "move_to_position"
                    /\ PurePositionAction(last_tick'.desired)
               ELSE /\ pc' = "move_to_position_return"
                    /\ ticks' = ticks
                    /\ action_counter_' = action_counter_
                    /\ last_tick' = last_tick
                    /\ frame'.position
                          \in {o.position : o \in Observations}]_vars
    /\ [][pc = "move_to_position_return"
            => LET reached ==
                       \A i \in Joints :
                           Abs(frame.goal_pos[i] - frame.position[i])
                               < move_to_position_tolerance_rad
               IN  /\ ticks' = ticks
                   /\ action_counter_' = action_counter_
                   /\ pc' # "move_to_position_return"
                   /\ IF frame.top = "initialize"
                      THEN frame'.reached_goal = reached
                      ELSE frame'.success = reached]_vars

\* C15 happens: all ticks of a shutdown waypoint are applied, joint 1 is on
\* the goal and joint 0 is off by exactly the tolerance.
C15_Witness ==
    /\ pc = "move_to_position_return"
    /\ frame.top = "shutdown"
    /\ frame.time_steps > 0
    /\ frame.t = frame.time_steps
    /\ last_tick.issuer = "move_to_position"
    /\ Abs(frame.goal_pos[0] - frame.position[0])
          = move_to_position_tolerance_rad
    /\ frame.goal_pos[1] = frame.position[1]

\* the newest status of board i reports an error
Faulty(i) ==
    /\ Len(p_in.status[i]) > 0
    /\ p_in.status[i][Len(p_in.status[i])] # "NONE"

\* the board indices of the faulty boards, in board order, up to board n - 1
RECURSIVE FaultyBoards(_)
FaultyBoards(n) ==
    IF n = 0 THEN << >>
    ELSE IF Faulty(n - 1) THEN Append(FaultyBoards(n - 1), to_string(n - 1))
    ELSE FaultyBoards(n - 1)

IsBoardIndex(piece) == piece \in {to_string(i) : i \in MotorBoards}

\* C16: get_error() returns the empty string exactly when every board has
\* no status or a newest status NONE and every measured angle is within the
\* hard limits, bounds included; otherwise the result has one message per
\* faulty board, in board order, each after the index of its board, and the
\* position-limits message, once and last, exactly when the hard limits are
\* violated.
C16_GetError ==
    p_out # NoCall
        => LET error_msg == p_out.error_msg
               within ==
                   \A i \in Joints :
                       /\ hard_position_limits_lower[i] <= p_in.position[i]
                       /\ p_in.position[i] <= hard_position_limits_upper[i]
           IN  /\ (error_msg = << >>)
                     = (within /\ \A i \in MotorBoards : ~Faulty(i))
               /\ SelectSeq(error_msg, IsBoardIndex)
                     = FaultyBoards(N_MOTOR_BOARDS)
               /\ Count(error_msg, "[Board ")
                     = Len(FaultyBoards(N_MOTOR_BOARDS))
               /\ \A k \in 1 .. Len(error_msg) :
                     error_msg[k] = "[Board "
                        => /\ k + 3 <= Len(error_msg)
                           /\ IsBoardIndex(error_msg[k + 1])
                           /\ error_msg[k + 2] = "] "
                           /\ \E i \in MotorBoards :
                                /\ error_msg[k + 1] = to_string(i)
                                /\ Faulty(i)
                                /\ error_msg[k + 3] # ""
                                /\ error_msg[k + 3]
                                     = board_error_msg(
                                         p_in.status[i][Len(p_in.status[i])])
               /\ Count(error_msg, "Position limits exceeded.")
                     = (IF within THEN 0 ELSE 1)
               /\ ~within
                     => error_msg[Len(error_msg)] = "Position limits exceeded."

\* C16 happens: board 0 had no error and now reports an encoder error, the
\* newest status of board 1 is none of the listed codes, joint 0 is exactly
\* on its upper hard limit and joint 1 beyond its lower one.
C16_Witness ==
    /\ p_out # NoCall
    /\ p_in.status[0] = << "NONE", "ENCODER" >>
    /\ p_in.status[1] = << "UNLISTED" >>
    /\ p_in.position = Vec(hard_position_limits_upper[0],
                           hard_position_limits_lower[1] - PosUnit)
    /\ p_out.error_msg
          = << "[Board ", "0", "] ", "Encoder Error", "  ",
               "[Board ", "1", "] ", "Unknown Error", " | ",
               "Position limits exceeded." >>

Window == 0 .. (SIZE_VELOCITY_WINDOW - 1)

RECURSIVE SumOver(_, _)
SumOver(f, n) == IF n = 0 THEN 0 ELSE SumOver(f, n - 1) + f[n - 1]

Max(set) == CHOOSE m \in set : \A x \in set : x <= m

\* SIZE_VELOCITY_WINDOW times the average, over the ticks in the window, of
\* the largest absolute joint velocity of the tick
WindowSumOfMax ==
    SumOver([k \in Window |->
               Max({frame.running_velocities[k][i] : i \in Joints})],
            SIZE_VELOCITY_WINDOW)

\* SIZE_VELOCITY_WINDOW times the largest, over the joints, of the average
\* absolute velocity of the joint over the ticks in the window
WindowMaxOfSum ==
    Max({SumOver([k \in Window |-> frame.running_velocities[k][i]],
                 SIZE_VELOCITY_WINDOW) : i \in Joints})

\* C17 as stated: move_until_blocking returns at the first loop check at
\* which step_count has reached the minimum and the average over the window
\* of the maximum-over-joints absolute velocity is not above STOP_VELOCITY,
\* and at no other.
C17_StopsOnAverageOfMaximum ==
    [][pc = "move_until_blocking"
        => LET stop ==
                   /\ frame.step_count >= MIN_STEPS_MOVE_TO_END_STOP
                   /\ WindowSumOfMax <= STOP_VELOCITY * SIZE_VELOCITY_WINDOW
           IN  IF stop THEN pc' = "homing_reference"
               ELSE pc' = "move_until_blocking"]_vars

\* C17, amended: the same with the maximum over the joints of each joint's
\* own average absolute velocity over the window, for as long as step_count
\* has not wrapped; up to there the ticks applied are counted by step_count,
\* every loop check that does not return applies one more tick, and the
\* minimum is above the window size.
C17_StopsOnMaximumOfAverages ==
    /\ [](pc = "move_until_blocking"
            => /\ ticks = frame.step_count
               /\ ticks < StepCountModulus
               /\ MIN_STEPS_MOVE_TO_END_STOP > SIZE_VELOCITY_WINDOW)
    /\ [][pc = "move_until_blocking"
            => LET stop ==
                       /\ frame.step_count >= MIN_STEPS_MOVE_TO_END_STOP
                       /\ WindowMaxOfSum
                             <= STOP_VELOCITY * SIZE_VELOCITY_WINDOW
               IN  IF stop
                   THEN /\ pc' = "homing_reference"
                        /\ ticks' = ticks
                        /\ action_counter_' = action_counter_
                   ELSE /\ pc' = "move_until_blocking"
                        /\ frame'.step_count = frame.step_count + 1
                        /\ ticks' = ticks + 1
                        /\ last_tick'.issuer = "move_until_blocking"]_vars

\* C17 happens: the loop went on after the minimum number of steps because
\* a joint was still moving, and is now at a check where it returns although
\* in every tick of the window one of the joints moved faster than
\* STOP_VELOCITY.
C17_Witness ==
    /\ pc = "move_until_blocking"
    /\ frame.step_count > MIN_STEPS_MOVE_TO_END_STOP
    /\ ticks = frame.step_count
    /\ ~KeepsMoving(frame.step_count, frame.summed_velocities)
    /\ WindowSumOfMax > STOP_VELOCITY * SIZE_VELOCITY_WINDOW

\* every slot of the velocity window holds a zero velocity for every joint
WindowAllZero == \A k \in Window : frame.running_velocities[k] = VectorZero

\* C18: move_until_blocking has no timeout.  It eventually returns when the
\* velocities it measures stay at zero: no run stays in the loop forever
\* with a window that holds zero velocities only.  And at a loop check at
\* which the window average is above STOP_VELOCITY it applies another tick
\* and stays in the loop, so that as long as this goes on initialize() does
\* not return and the ready flag is not written.
C18_ReturnsWhenBlocked ==
    /\ []<>~(pc = "move_until_blocking" /\ WindowAllZero)
    /\ [][(/\ pc = "move_until_blocking"
           /\ maxCoeff(frame.summed_velocities)
                 > STOP_VELOCITY * SIZE_VELOCITY_WINDOW)
            => (/\ pc' = "move_until_blocking"
                /\ last_tick'.issuer = "move_until_blocking"
                /\ is_initialized_' = is_initialized_
                /\ result' = result
                /\ InInitialize)]_vars

\* the requests for reference acquisition made to the joint modules
ReferenceRequests == {"execute_homing", "execute_homing_at_current_position"}

\* the configurations on which homing() runs the end-stop search
SearchesEndstop ==
    /\ config.homing_method \in {"ENDSTOP", "ENDSTOP_INDEX", "ENDSTOP_RELEASE"}
    /\ config.has_endstop
    /\ \E i \in Joints : config.endstop_search_torques_Nm[i] # 0

\* C19: homing() runs the end-stop search exactly when the method is
\* ENDSTOP, ENDSTOP_INDEX or ENDSTOP_RELEASE and the fail-fast checks passed;
\* its ticks, with the configured search torques as desired torque, are
\* then the first ticks of homing() and all of them are applied before the
\* request for reference acquisition is made.  With NONE, NEXT_INDEX and
\* CURRENT_POSITION no tick is applied before that request.
C19_SearchBeforeReference ==
    /\ [](frame.top = "initialize"
            => /\ Count(trace, "move_until_blocking") <= 1
               /\ Count(trace, "move_until_blocking") = 1
                     => /\ SearchesEndstop
                        /\ trace[2] = "move_until_blocking"
               /\ \A j, k \in 1 .. Len(trace) :
                     (j < k /\ trace[j] \in ReferenceRequests)
                        => trace[k] # "move_until_blocking"
               /\ last_tick.issuer = "move_until_blocking"
                     => last_tick.desired
                          = ActionTorque(config.endstop_search_torques_Nm)
               /\ pc \in {"homing_reference", "pause_after_homing"}
                     => /\ (Count(trace, "move_until_blocking") = 1)
                              = SearchesEndstop
                        /\ SearchesEndstop
                              => ticks >= MIN_STEPS_MOVE_TO_END_STOP
                        /\ config.homing_method
                              \in {"NONE", "NEXT_INDEX", "CURRENT_POSITION"}
                              => ticks = 0)
    /\ [][(/\ frame.top = "initialize"
           /\ Len(trace') = Len(trace) + 1
           /\ trace'[Len(trace')] \in ReferenceRequests)
            => (/\ pc = "homing_reference"
                /\ ticks' = ticks
                /\ (Count(trace, "move_until_blocking") = 1)
                      = (config.homing_method
                           \in {"ENDSTOP", "ENDSTOP_INDEX", "ENDSTOP_RELEASE"})
                /\ config.homing_method \in {"NEXT_INDEX", "CURRENT_POSITION"}
                      => ticks = 0)]_vars

\* C19 happens: ENDSTOP homing has run the end-stop search and then made
\* the request to home at the current position, which succeeded.
C19_Witness ==
    /\ pc = "pause_after_homing"
    /\ config.homing_method = "ENDSTOP"
    /\ trace = << "set_position_control_gains", "move_until_blocking",
                  "execute_homing_at_current_position" >>
    /\ ticks > MIN_STEPS_MOVE_TO_END_STOP
    /\ frame.homing_succeeded

\* the release loop of ENDSTOP_RELEASE homing is running or has just ended
InRelease ==
    /\ frame.top = "initialize"
    /\ pc = "homing_reference"
    /\ config.homing_method = "ENDSTOP_RELEASE"

\* C20: with method ENDSTOP_RELEASE and the fail-fast checks passed,
\* homing() runs the end-stop search first, then exactly
\* NUM_ZERO_TORQUE_STEPS ticks whose desired action is zero torque on every
\* joint with no position target, then makes one request to home at the
\* current position with the configured home offset, and returns with that
\* request: no tick lies between the request and the return.
C20_ReleaseThenReference ==
    /\ [](InRelease
            => /\ ~isZero(config.endstop_search_torques_Nm)
               /\ frame.i \in 0 .. NUM_ZERO_TORQUE_STEPS
               /\ frame.reference_request = NoRequest
               /\ trace = IF frame.i = 0
                          THEN << "set_position_control_gains",
                                  "move_until_blocking" >>
                          ELSE << "set_position_control_gains",
                                  "move_until_blocking", "zero_torque" >>
               /\ last_tick.issuer = IF frame.i = 0
                                     THEN "move_until_blocking"
                                     ELSE "zero_torque"
               /\ ticks >= MIN_STEPS_MOVE_TO_END_STOP + frame.i)
    /\ [][(pc = "move_until_blocking" /\ InRelease')
            => (frame'.i = 0 /\ ticks' = ticks)]_vars
    /\ [][(InRelease /\ InRelease')
            => (/\ frame.i < NUM_ZERO_TORQUE_STEPS
                /\ frame'.i = frame.i + 1
                /\ ticks' = ticks + 1
                /\ last_tick'.issuer = "zero_torque"
                /\ last_tick'.desired
                     = [torque |-> VectorZero,
                        position |-> VectorConstant(NaN),
                        position_kp |-> VectorConstant(NaN),
                        position_kd |-> VectorConstant(NaN)])]_vars
    /\ [][(InRelease /\ ~InRelease')
            => (/\ frame.i = NUM_ZERO_TORQUE_STEPS
                /\ pc' = "pause_after_homing"
                /\ ticks' = ticks
                /\ last_tick' = last_tick
                /\ frame'.reference_request
                     = [call |-> "execute_homing_at_current_position",
                        home_offset_rad |-> home_offset_rad]
                /\ frame'.homing_succeeded
                     = (frame'.collaborator_status = "SUCCEEDED")
                /\ trace' = << "set_position_control_gains",
                               "move_until_blocking", "zero_torque",
                               "execute_homing_at_current_position" >>)]_vars

\* C20 happens: ENDSTOP_RELEASE homing has searched the end stop, applied
\* the zero-torque ticks and requested homing at the current position with
\* the configured offset.
C20_Witness ==
    /\ pc = "pause_after_homing"
    /\ config.homing_method = "ENDSTOP_RELEASE"
    /\ frame.reference_request = HomeAtCurrentPosition
    /\ last_tick.issuer = "zero_torque"
    /\ last_tick.desired.torque = VectorZero
    /\ ticks >= MIN_STEPS_MOVE_TO_END_STOP + NUM_ZERO_TORQUE_STEPS
    /\ trace = << "set_position_control_gains", "move_until_blocking",
                  "zero_torque", "execute_homing_at_current_position" >>

\* execute_homing has just been requested from the joint modules
IndexRequested ==
    /\ frame.top = "initialize"
    /\ frame.reference_request.call = "execute_homing"

\* C21: for NEXT_INDEX and ENDSTOP_INDEX and search torques that are not
\* all zero, the index-search step passed to the joint modules has, for
\* every joint on its own, the magnitude INDEX_SEARCH_STEP_SIZE_RAD, is
\* negative where the joint's search torque is positive and positive where
\* the joint's search torque is negative; the request is made for these
\* two methods only and never with all-zero search torques.
C21_IndexSearchDirection ==
    /\ [](IndexRequested
            => /\ config.homing_method \in {"NEXT_INDEX", "ENDSTOP_INDEX"}
               /\ ~isZero(config.endstop_search_torques_Nm)
               /\ \A i \in Joints :
                    LET step == frame.reference_request
                                     .index_search_step_sizes[i]
                        torque == config.endstop_search_torques_Nm[i]
                    IN  /\ Abs(step) = INDEX_SEARCH_STEP_SIZE_RAD
                        /\ torque > 0 => step < 0
                        /\ torque < 0 => step > 0)
    /\ [][(/\ pc = "homing_reference"
           /\ frame.top = "initialize"
           /\ config.homing_method \in {"NEXT_INDEX", "ENDSTOP_INDEX"}
           /\ ~isZero(config.endstop_search_torques_Nm)
           /\ pc' # pc)
            => IndexRequested']_vars

\* C21 happens: execute_homing was requested with search torques of
\* different signs on the two joints.
C21_Witness ==
    /\ IndexRequested
    /\ pc = "pause_after_homing"
    /\ \E i, j \in Joints : /\ config.endstop_search_torques_Nm[i] > 0
                            /\ config.endstop_search_torques_Nm[j] < 0

\* joint i of the call is measured within its limits
MeasuredInside(i) ==
    /\ p_in.limits.lower[i] <= p_in.observation.position[i]
    /\ p_in.observation.position[i] <= p_in.limits.upper[i]

\* joint i of the call is measured below its lower or above its upper limit
MeasuredOutside(i) ==
    \/ p_in.observation.position[i] < p_in.limits.lower[i]
    \/ p_in.observation.position[i] > p_in.limits.upper[i]

\* x limited to [-m, m]
Limited(x, m) == IF x < 0 - m THEN 0 - m ELSE IF x > m THEN m ELSE x

\* the gain in force for one joint: the override when it is set
GainInForce(override, default) == IF IsNaN(override) THEN default ELSE override

\* the torque of joint i computed from the inputs of joint i alone, with
\* position target `target` and the gains kp, kd
JointTorque(i, torque, target, kp, kd) ==
    LET velocity == p_in.observation.velocity[i]
        pd == IF IsNaN(target) THEN 0
              ELSE kp * (target - p_in.observation.position[i]) - kd * velocity
    IN  Limited(Limited(torque + pd, p_in.max_torque_Nm)
                    - p_in.safety_kd[i] * velocity,
                p_in.max_torque_Nm)

\* C22: the boundary override works joint by joint.  A joint measured
\* outside its limits gets the default gains in place of its overrides.  A
\* joint measured inside its limits keeps, whatever the other joints do, its
\* desired torque, its position target when that is set within the limits
\* and its gain overrides when they are set, and its returned torque is
\* the one the PD controller gives with its own overrides (the defaults
\* where no override is set).
C22_OverridePerJoint ==
    p_out # NoCall
        => \A i \in Joints :
             LET desired == p_in.desired
                 limited == LimitedAction(desired, p_in.observation, p_in.kp,
                                          p_in.kd, p_in.limits.lower,
                                          p_in.limits.upper)
                 target == desired.position[i]
                 within == /\ ~IsNaN(target)
                           /\ p_in.limits.lower[i] <= target
                           /\ target <= p_in.limits.upper[i]
             IN  /\ MeasuredOutside(i)
                     => /\ p_out.position_kp[i] = p_in.kp[i]
                        /\ p_out.position_kd[i] = p_in.kd[i]
                 /\ MeasuredInside(i)
                     => /\ limited.torque[i] = desired.torque[i]
                        /\ limited.position_kp[i] = desired.position_kp[i]
                        /\ limited.position_kd[i] = desired.position_kd[i]
                        /\ within => /\ limited.position[i] = target
                                     /\ p_out.position[i] = target
                        /\ ~IsNaN(desired.position_kp[i])
                              => p_out.position_kp[i] = desired.position_kp[i]
                        /\ ~IsNaN(desired.position_kd[i])
                              => p_out.position_kd[i] = desired.position_kd[i]
                        /\ (within \/ IsNaN(target))
                              => p_out.torque[i]
                                   = JointTorque(
                                       i, desired.torque[i], target,
                                       GainInForce(desired.position_kp[i],
                                                   p_in.kp[i]),
                                       GainInForce(desired.position_kd[i],
                                                   p_in.kd[i]))

\* C22 happens: both joints carry gain overrides; joint 0 is measured
\* outside its limits and gets the default gains, joint 1 is measured inside
\* with a target within the limits, keeps its overrides and gets a torque
\* that the default gains would not give.
C22_Witness ==
    /\ p_out # NoCall
    /\ MeasuredOutside(0)
    /\ MeasuredInside(1)
    /\ p_in.desired.position_kp = Vec(2, 2)
    /\ p_in.desired.position_kd = Vec(0, 0)
    /\ ~IsNaN(p_in.desired.position[1])
    /\ p_in.limits.lower[1] <= p_in.desired.position[1]
    /\ p_in.desired.position[1] <= p_in.limits.upper[1]
    /\ p_out.position_kp = Vec(p_in.kp[0], 2)
    /\ p_out.position_kd = Vec(p_in.kd[0], 0)
    /\ p_out.torque[1]
         # JointTorque(1, p_in.desired.torque[1], p_in.desired.position[1],
                       p_in.kp[1], p_in.kd[1])

\* the action of the call after the boundary override
AfterOverride ==
    LimitedAction(p_in.desired, p_in.observation, p_in.kp, p_in.kd,
                  p_in.limits.lower, p_in.limits.upper)

\* C23: for every input the returned torque of joint i is
\* clamp(clamp(t0[i] + pd[i]) - safety_kd[i] * velocity[i]), both clamps to
\* +-max_torque, where t0, the target and the gain overrides are those left
\* by the boundary override, pd[i] = kp[i] * (target[i] - position[i])
\* - kd[i] * velocity[i] with the override gains where set and the defaults
\* elsewhere for a joint with a target, and pd[i] = 0 for a joint without;
\* the damping term is subtracted also when no joint has a target.
C23_TorqueFormula ==
    p_out # NoCall
        => \A i \in Joints :
             LET t0 == AfterOverride.torque[i]
                 target == AfterOverride.position[i]
                 velocity == p_in.observation.velocity[i]
                 kp == IF IsNaN(AfterOverride.position_kp[i])
                       THEN p_in.kp[i] ELSE AfterOverride.position_kp[i]
                 kd == IF IsNaN(AfterOverride.position_kd[i])
                       THEN p_in.kd[i] ELSE AfterOverride.position_kd[i]
                 pd == IF IsNaN(target) THEN 0
                       ELSE kp * (target - p_in.observation.position[i])
                              - kd * velocity
                 max == p_in.max_torque_Nm
                 first == IF t0 + pd < 0 - max THEN 0 - max
                          ELSE IF t0 + pd > max THEN max
                          ELSE t0 + pd
                 damped == first - p_in.safety_kd[i] * velocity
             IN  /\ p_out.torque[i] = IF damped < 0 - max THEN 0 - max
                                      ELSE IF damped > max THEN max
                                      ELSE damped
                 /\ (\A j \in Joints : IsNaN(AfterOverride.position[j]))
                       => /\ pd = 0
                          /\ (Abs(t0) <= max
                               /\ Abs(t0 - p_in.safety_kd[i] * velocity) <= max)
                                => p_out.torque[i]
                                     = t0 - p_in.safety_kd[i] * velocity

\* C23 happens: no joint has a position target, the desired torque is
\* [0, 0], safety_kd [1, 1] and the measured velocity [3, -3] give the
\* torque [-3, 3] within the maximum 4.
C23_Witness ==
    /\ p_out # NoCall
    /\ \A i \in Joints : /\ IsNaN(p_in.desired.position[i])
                         /\ IsNaN(p_out.position[i])
    /\ p_in.desired.torque = Vec(0, 0)
    /\ p_in.safety_kd = Vec(1, 1)
    /\ p_in.observation.velocity = Vec(3, 0 - 3)
    /\ p_out.torque = Vec(0 - 3, 3)

\* the slots of the velocity window written after k ticks of the loop
WrittenSlots(k) == 0 .. (Min(k, SIZE_VELOCITY_WINDOW) - 1)

\* the sum of joint i's absolute velocities over the slots written after k
\* ticks
WindowSum(f, i, k) ==
    SumOver([j \in Window |->
               IF j \in WrittenSlots(k) THEN f.running_velocities[j][i]
               ELSE 0],
            SIZE_VELOCITY_WINDOW)

\* C24: in move_until_blocking, after every loop iteration, with k ticks
\* applied so far, the running sum of each joint is the sum of that joint's
\* absolute velocities measured on the last min(k, W) ticks: every
\* iteration stores the absolute velocity it measured in one slot of the
\* window and leaves the other slots alone, and the running sum is the sum
\* of the slots written so far.
C24_RunningSumIsWindowSum ==
    /\ [](pc = "move_until_blocking"
            => \A i \in Joints :
                 frame.summed_velocities[i] = WindowSum(frame, i, ticks))
    /\ [][(pc = "move_until_blocking" /\ pc' = "move_until_blocking")
            => \E slot \in Window :
                 /\ \E observation \in Observations :
                      frame'.running_velocities[slot]
                        = [i \in Joints |-> Abs(observation.velocity[i])]
                 /\ \A other \in Window \ {slot} :
                      frame'.running_velocities[other]
                        = frame.running_velocities[other]]_vars

\* this step applies one tick
Ticked == ticks' = ticks + 1

\* the run-duration log is being written or has been written by shutdown()
WritingLog == pc = "shutdown_log" /\ frame.top = "shutdown"

\* C25: the action counter starts at 0, goes up by exactly one with every
\* tick, whoever issues it (apply_action, the blocking move and the
\* zero-torque release of homing, move_to_position during initialize() and
\* shutdown()), every such tick sends the torque the pipeline returns, and
\* nothing else changes the counter: a rejected apply_action, get_error and
\* the pauses leave it as it is.  shutdown() writes the counter to the
\* run-duration logs after the last tick of its trajectory, so the count
\* written covers every tick since construction.
C25_CounterCountsTicks ==
    /\ []((calls = 0 /\ pc \in {"idle", "get_error", "pipeline"})
            => action_counter_ = 0)
    /\ [](action_counter_ >= ticks)
    /\ [][IF Ticked
           THEN /\ action_counter_' = action_counter_ + 1
                /\ last_tick'.issuer \in TickEvents
                /\ last_tick'.sent_torque
                     = process_desired_action(
                           last_tick'.desired, last_tick'.observation,
                           max_torque_Nm, safety_kd,
                           position_control_gains_kp,
                           position_control_gains_kd,
                           last_tick'.lower, last_tick'.upper).torque
           ELSE /\ action_counter_' = action_counter_
                /\ last_tick' \in {last_tick, NoTick}]_vars
    /\ [][(result'.status = "runtime_error" /\ calls' # calls)
            => (~Ticked /\ action_counter_' = action_counter_)]_vars
    /\ [][(Len(trace') > Len(trace)
           /\ trace'[Len(trace')] = "pause_motors")
            => (~Ticked /\ action_counter_' = action_counter_)]_vars
    /\ [][(p_out' # p_out) => (~Ticked /\ action_counter_' = action_counter_)]_vars
    /\ [][WritingLog => ~Ticked]_vars
    /\ [][(logs' # logs)
            => (/\ WritingLog
                /\ \E f \in 1 .. Len(run_duration_logfiles) :
                     logs' = [logs EXCEPT ![f] = Append(@, action_counter_)])]_vars

\* C25 happens: shutdown() has written to the first log a count that is
\* larger than the number of ticks of its own shutdown trajectory, which
\* are included.
C25_Witness ==
    /\ WritingLog
    /\ frame.i = Len(run_duration_logfiles)
    /\ ticks > 0
    /\ action_counter_ > ticks
    /\ logs[1] = << action_counter_ >>

\* _initialize() is in its loop over the joints
InInitialMove ==
    /\ frame.top = "initialize"
    /\ pc \in {"initial_move", "move_to_position", "move_to_position_return"}

\* homing methods that apply no tick
TicklessMethods == {"NONE", "NEXT_INDEX", "CURRENT_POSITION"}

\* C26: when homing succeeded, _initialize() calls move_to_position once
\* per joint, in joint order and one call after the other; the call for
\* joint i targets the configured initial position for the joints 0 .. i
\* and, for the joints after i, the position measured right after homing;
\* every call applies calibration move_steps ticks, N_JOINTS * move_steps
\* in total; and the failure to reach the initial position is printed
\* exactly when the last of the calls returned false.
C26_InitialMoveJointByJoint ==
    /\ [](InInitialMove
            => /\ frame.homing_succeeded
               /\ frame.i \in 0 .. N_JOINTS
               /\ pc # "initial_move" => frame.i < N_JOINTS
               /\ \A j \in Joints :
                    j < frame.i => frame.waypoint[j] = initial_position_rad[j]
               /\ pc # "initial_move"
                    => /\ frame.goal_pos = frame.waypoint
                       /\ frame.goal_pos[frame.i]
                            = initial_position_rad[frame.i]
                       /\ frame.time_steps = calibration_move_steps
                       /\ frame.t \in 0 .. calibration_move_steps
                       /\ pc = "move_to_position_return"
                            => frame.t = calibration_move_steps
               /\ config.homing_method \in TicklessMethods
                    => ticks = frame.i * calibration_move_steps
                                 + (IF pc = "initial_move" THEN 0 ELSE frame.t))
    /\ [][(pc = "pause_after_homing" /\ frame.homing_succeeded)
            => (/\ InInitialMove'
                /\ pc' = "initial_move"
                /\ frame'.i = 0
                /\ \E observation \in Observations :
                     frame'.waypoint = observation.position)]_vars
    /\ [][(pc = "pause_after_homing" /\ ~frame.homing_succeeded)
            => (~InInitialMove' /\ ticks' = ticks)]_vars
    /\ [][(InInitialMove /\ InInitialMove')
            => (/\ \A j \in Joints :
                     j > frame.i => frame'.waypoint[j] = frame.waypoint[j]
                /\ frame'.i \in {frame.i, frame.i + 1}
                /\ frame'.i = frame.i + 1
                     <=> (pc = "move_to_position_return"
                          /\ pc' = "initial_move")
                /\ Ticked <=> (pc = "move_to_position"
                               /\ frame'.t = frame.t + 1)
                /\ Ticked => last_tick'.issuer = "move_to_position"
                /\ (pc = "move_to_position_return")
                     => frame'.reached_goal
                          = ReachedGoal(frame.goal_pos, frame.position,
                                        move_to_position_tolerance_rad))]_vars
    /\ [][(InInitialMove /\ ~InInitialMove')
            => (/\ pc = "initial_move"
                /\ frame.i = N_JOINTS
                /\ pc' = "final_pause"
                /\ ticks' = ticks
                /\ trace' = IF frame.reached_goal THEN trace
                            ELSE Append(trace,
                                   "print_failed_to_reach_initial_position"))]_vars
    /\ [](Count(trace, "print_failed_to_reach_initial_position") > 0
            => (frame.homing_succeeded /\ ~frame.reached_goal))

\* C26 happens: the move of joint 0 has missed its goal, and the move of
\* the last joint, whose target is the initial position on every joint, is
\* about to return true after N_JOINTS * move_steps ticks.
C26_Witness ==
    /\ InInitialMove
    /\ pc = "move_to_position_return"
    /\ frame.i = N_JOINTS - 1
    /\ ~frame.reached_goal
    /\ frame.goal_pos = initial_position_rad
    /\ ReachedGoal(frame.goal_pos, frame.position,
                   move_to_position_tolerance_rad)
    /\ ticks >= N_JOINTS * calibration_move_steps

====
